---- MODULE Spec2Model ----
(***************************************************************************)
(* Model of the live-market extraction engine of weblife-stores            *)
(* (backend/services/unified_scraper.py, backend/services/scraper.py) and  *)
(* of the run that drives it.                                               *)
(*                                                                         *)
(* Conventions                                                             *)
(*  - Python values are tagged records: None, Num(n), Str(tokens),         *)
(*    Path(segments), List(seq), Dict(record).                             *)
(*  - Money is counted in cents (799.99 is 79999), ratings in tenths       *)
(*    (4.5 is 45).                                                         *)
(*  - A text is the sequence of the tokens the code's regular expressions  *)
(*    and substring tests read: number tokens with the marker that         *)
(*    precedes / follows them, and word tokens (lower-cased phrases).      *)
(***************************************************************************)
EXTENDS Integers, Sequences, FiniteSets, TLC

(***************************************************************************)
(* Python values                                                           *)
(***************************************************************************)
None == [t |-> "none"]
Num(n) == [t |-> "num", v |-> n]
Str(toks) == [t |-> "str", v |-> toks]
Path(segs) == [t |-> "path", v |-> segs]
List(s) == [t |-> "list", v |-> s]
Dict(r) == [t |-> "dict", v |-> r]

\* a plain string (no "/" in it) is a path of one segment
S(w) == Path(<<w>>)

IsNone(x) == x.t = "none"
IsNum(x) == x.t = "num"
IsStr(x) == x.t = "str" \/ x.t = "path"
IsDict(x) == x.t = "dict"
IsList(x) == x.t = "list"

\* Python truthiness: None, 0, "", [] and {} are falsy.
Truthy(x) ==
  CASE x.t = "none" -> FALSE
    [] x.t = "num" -> x.v # 0
    [] x.t = "str" -> Len(x.v) > 0
    [] x.t = "path" -> Len(x.v) > 0
    [] x.t = "list" -> Len(x.v) > 0
    [] x.t = "dict" -> DOMAIN x.v # {}
    [] OTHER -> TRUE

\* Python's "a or b".
PyOr(a, b) == IF Truthy(a) THEN a ELSE b

\* dict.get(k): the value, or None when the key is missing.
Get(d, k) == IF k \in DOMAIN d.v THEN d.v[k] ELSE None

(***************************************************************************)
(* Text tokens                                                             *)
(***************************************************************************)
NumTok(pre, n, post) == [k |-> "num", pre |-> pre, v |-> n, post |-> post]
Word(w) == [k |-> "word", w |-> w]

(***************************************************************************)
(* unified_scraper.money_to_float                                          *)
(***************************************************************************)
PRICE_MIN == 1000
PRICE_MAX == 5000000

\* The six patterns, in the order of the list, as predicates on a token.
PatDollar(tk) == tk.k = "num" /\ tk.pre \in {"$", "USD$", "Price:$", "Starting at$"}
PatUsdPrefix(tk) == tk.k = "num" /\ tk.pre \in {"USD", "USD$"}
PatPriceLabel(tk) == tk.k = "num" /\ tk.pre \in {"Price:", "Price:$"}
PatStartingAt(tk) == tk.k = "num" /\ tk.pre \in {"Starting at", "Starting at$"}
PatUsdSuffix(tk) == tk.k = "num" /\ tk.post = "USD"
PatNumber(tk) == tk.k = "num"

NPatterns == 6

\* pattern number p of the list matches at token tk
Matches(p, tk) ==
  CASE p = 1 -> PatDollar(tk)
    [] p = 2 -> PatUsdPrefix(tk)
    [] p = 3 -> PatPriceLabel(tk)
    [] p = 4 -> PatStartingAt(tk)
    [] p = 5 -> PatUsdSuffix(tk)
    [] OTHER -> PatNumber(tk)

\* re.search(pattern, s): the index of the leftmost match, 0 when there is none
PatternMatch(p, s) ==
  IF \E i \in 1..Len(s) : Matches(p, s[i])
  THEN CHOOSE i \in 1..Len(s) :
         Matches(p, s[i]) /\ \A j \in 1..(i-1) : ~Matches(p, s[j])
  ELSE 0

\* the sanity check of line 50
InRange(price) == PRICE_MIN <= price /\ price <= PRICE_MAX

\* for pattern in patterns: first pattern whose leftmost match is in range
RECURSIVE money_from_text(_, _)
money_from_text(s, p) ==
  IF p > NPatterns THEN None
  ELSE LET i == PatternMatch(p, s) IN
       IF i # 0 /\ InRange(s[i].v) THEN Num(s[i].v)
       ELSE money_from_text(s, p + 1)

money_to_float(txt) ==
  CASE IsNone(txt) -> None
    [] IsNum(txt) -> Num(txt.v)
    [] txt.t = "str" -> money_from_text(txt.v, 1)
    [] OTHER -> None

(***************************************************************************)
(* unified_scraper.pick_currency                                           *)
(***************************************************************************)
HasDollarOrUsd(tk) ==
  \/ tk.k = "num" /\ (tk.pre \in {"$", "USD", "USD$", "Price:$", "Starting at$"} \/ tk.post = "USD")
  \/ tk.k = "word" /\ tk.w \in {"$", "usd"}

pick_currency(txt) ==
  CASE IsNone(txt) -> None
    [] txt.t = "str" -> IF \E i \in 1..Len(txt.v) : HasDollarOrUsd(txt.v[i])
                         THEN S("USD") ELSE None
    [] OTHER -> None

(***************************************************************************)
(* scraper._money_to_float (the offers-only scraper): one pattern, the     *)
(* leftmost number, no range check                                         *)
(***************************************************************************)
legacy_money_to_float(val) ==
  CASE IsNone(val) -> None
    [] IsNum(val) -> Num(val.v)
    [] val.t = "str" -> LET i == PatternMatch(NPatterns, val.v) IN
                         IF i # 0 THEN Num(val.v[i].v) ELSE None
    [] OTHER -> None


(***************************************************************************)
(* The page, as the scraper sees it.  What a locator answers:              *)
(*   Hidden         is_visible() is False                                  *)
(*   Raises         the query raises (timeout, detached element, ...)      *)
(*   Visible(txt)   is_visible() is True and text_content() is txt         *)
(***************************************************************************)
Hidden == [e |-> "hidden"]
Raises == [e |-> "raise"]
Visible(txt) == [e |-> "visible", text |-> txt]

\* substring relation between the lower-cased phrases of the model
SubstringPairs ==
  { <<"unavailable", "available">>,
    <<"temporarily unavailable", "available">>,
    <<"temporarily unavailable", "unavailable">>,
    <<"free shipping", "ship">>,
    <<"ships in 3 days", "ship">>,
    <<"ships in 3 days", "days">> }
Contains(w, term) == w = term \/ <<w, term>> \in SubstringPairs

\* term in text.lower()
TermIn(term, txt) ==
  txt.t = "str" /\ \E i \in 1..Len(txt.v) : txt.v[i].k = "word" /\ Contains(txt.v[i].w, term)

\* '$' in text
HasDollar(txt) ==
  txt.t = "str" /\ \E i \in 1..Len(txt.v) :
     \/ txt.v[i].k = "num" /\ txt.v[i].pre \in {"$", "USD$", "Price:$", "Starting at$"}
     \/ txt.v[i].k = "word" /\ txt.v[i].w = "$"

\* page.get_by_text(phrase, exact=False).first.is_visible(): "visible", "hidden" or "raise"
get_by_text(page, phrase) ==
  IF phrase \in page.text_raise THEN "raise"
  ELSE IF \E w \in page.words : Contains(w, phrase) THEN "visible"
  ELSE "hidden"

(***************************************************************************)
(* unified_scraper.read_jsonld_from_dom                                    *)
(* A block is empty, malformed (json.loads raises) or holds a JSON value.  *)
(***************************************************************************)
EmptyBlock == [raw |-> "empty"]
MalformedBlock == [raw |-> "malformed"]
JsonBlock(val) == [raw |-> "json", data |-> val]

\* a malformed block is not skipped: it leaves a node that is no JSON value
RECURSIVE read_jsonld_keeping_malformed(_, _, _)
read_jsonld_keeping_malformed(blocks, i, out) ==
  IF i > Len(blocks) THEN out
  ELSE LET b == blocks[i] IN
       CASE b.raw = "empty" -> read_jsonld_keeping_malformed(blocks, i + 1, out)
         [] b.raw = "malformed" -> read_jsonld_keeping_malformed(blocks, i + 1, Append(out, None))
         [] OTHER -> IF IsList(b.data)
                     THEN read_jsonld_keeping_malformed(blocks, i + 1, out \o b.data.v)
                     ELSE read_jsonld_keeping_malformed(blocks, i + 1, Append(out, b.data))

RECURSIVE read_jsonld_from(_, _, _)
read_jsonld_from(blocks, i, out) ==
  IF i > Len(blocks) THEN out
  ELSE LET b == blocks[i] IN
       CASE b.raw = "empty" -> read_jsonld_from(blocks, i + 1, out)
         [] b.raw = "malformed" -> read_jsonld_from(blocks, i + 1, out)
         [] OTHER -> IF IsList(b.data)
                     THEN read_jsonld_from(blocks, i + 1, out \o b.data.v)
                     ELSE read_jsonld_from(blocks, i + 1, Append(out, b.data))

read_jsonld_from_dom(page) == read_jsonld_from(page.blocks, 1, <<>>)

(***************************************************************************)
(* unified_scraper.extract_product_from_jsonld                             *)
(* node.get on a node that is no dict raises AttributeError.               *)
(***************************************************************************)
Lower(w) ==
  CASE w \in {"Product", "PRODUCT"} -> "product"
    [] w = "InStock" -> "instock"
    [] w = "OutOfStock" -> "outofstock"
    [] w = "PreOrder" -> "preorder"
    [] w = "Discontinued" -> "discontinued"
    [] w = "Intel" -> "intel"
    [] w = "Core" -> "core"
    [] OTHER -> w

IsProductType(t) ==
  \/ t.t = "path" /\ Len(t.v) = 1 /\ Lower(t.v[1]) = "product"
  \/ t.t = "list" /\ \E i \in 1..Len(t.v) : t.v[i].t = "path" /\ t.v[i].v = <<"Product">>

RECURSIVE extract_product_from(_, _)
extract_product_from(ld, i) ==
  IF i > Len(ld) THEN [raised |-> FALSE, prod |-> Dict(<<>>)]
  ELSE LET node == ld[i] IN
       IF ~IsDict(node) THEN [raised |-> TRUE, prod |-> Dict(<<>>)]
       ELSE LET t == PyOr(Get(node, "@type"), Get(node, "@type")) IN
            IF ~Truthy(t) THEN extract_product_from(ld, i + 1)
            ELSE IF IsProductType(t) THEN [raised |-> FALSE, prod |-> node]
            ELSE extract_product_from(ld, i + 1)

extract_product_from_jsonld(ld) == extract_product_from(ld, 1)

(***************************************************************************)
(* unified_scraper.scrape_lenovo_pdp                                       *)
(* page fields: goto ("ok" | "raise"), blocks, price_sel, price_pat,       *)
(* avail_sel, ship_sel, ship_pat (what each locator of the list answers),  *)
(* words (the visible phrases), text_raise (phrases whose lookup raises).  *)
(***************************************************************************)
now_iso == S("now")

\* lines 137-146: every selector is tried; the text of a visible element is
\* kept, and the loop stops at the first kept text that holds a "$"
RECURSIVE price_selector_loop(_, _, _)
price_selector_loop(outs, i, price_text) ==
  IF i > Len(outs) THEN price_text
  ELSE LET o == outs[i] IN
       IF o.e = "visible"
       THEN IF Truthy(o.text) /\ HasDollar(o.text) THEN o.text
            ELSE price_selector_loop(outs, i + 1, o.text)
       ELSE price_selector_loop(outs, i + 1, price_text)

\* lines 150-164: one try around the whole loop
RECURSIVE price_pattern_loop(_, _, _)
price_pattern_loop(outs, i, price_text) ==
  IF i > Len(outs) THEN price_text
  ELSE LET o == outs[i] IN
       CASE o.e = "raise" -> price_text
         [] o.e = "visible" -> o.text
         [] OTHER -> price_pattern_loop(outs, i + 1, price_text)

InStockTerms == {"in stock", "available", "add to cart"}
OutOfStockTerms == {"out of stock", "unavailable", "sold out"}

\* lines 180-194
RECURSIVE avail_selector_loop(_, _)
avail_selector_loop(outs, i) ==
  IF i > Len(outs) THEN None
  ELSE LET o == outs[i] IN
       IF o.e = "visible" /\ Truthy(o.text)
       THEN IF \E term \in InStockTerms : TermIn(term, o.text) THEN S("InStock")
            ELSE IF \E term \in OutOfStockTerms : TermIn(term, o.text) THEN S("OutOfStock")
            ELSE avail_selector_loop(outs, i + 1)
       ELSE avail_selector_loop(outs, i + 1)

AvailPhrases ==
  << <<"add to cart", "InStock">>, <<"buy now", "InStock">>, <<"in stock", "InStock">>,
     <<"available", "InStock">>, <<"out of stock", "OutOfStock">>, <<"sold out", "OutOfStock">>,
     <<"temporarily unavailable", "OutOfStock">>, <<"discontinued", "Discontinued">>,
     <<"coming soon", "PreOrder">> >>

\* lines 197-215: a lookup that raises is skipped
RECURSIVE avail_phrase_loop(_, _)
avail_phrase_loop(page, i) ==
  IF i > Len(AvailPhrases) THEN None
  ELSE IF get_by_text(page, AvailPhrases[i][1]) = "visible" THEN S(AvailPhrases[i][2])
  ELSE avail_phrase_loop(page, i + 1)

ShipTerms == {"ship", "deliver", "days", "weeks"}

\* lines 227-237
RECURSIVE ship_selector_loop(_, _)
ship_selector_loop(outs, i) ==
  IF i > Len(outs) THEN None
  ELSE LET o == outs[i] IN
       IF o.e = "visible" /\ Truthy(o.text) /\ \E term \in ShipTerms : TermIn(term, o.text)
       THEN o.text
       ELSE ship_selector_loop(outs, i + 1)

\* lines 240-256: one try around the loop; text_content() or ""; the loop
\* goes on after a text of 100 characters or more but keeps it
IsLong(txt) == txt.t = "str" /\ \E i \in 1..Len(txt.v) : txt.v[i].k = "word" /\ txt.v[i].w = "long text"
RECURSIVE ship_pattern_loop(_, _, _)
ship_pattern_loop(outs, i, eta) ==
  IF i > Len(outs) THEN eta
  ELSE LET o == outs[i] IN
       CASE o.e = "raise" -> eta
         [] o.e = "visible" -> LET txt == PyOr(o.text, Str(<<>>)) IN
                               IF ~IsLong(txt) THEN txt
                               ELSE ship_pattern_loop(outs, i + 1, txt)
         [] OTHER -> ship_pattern_loop(outs, i + 1, eta)

LenovoPromos == <<"weekly deals", "sale", "save $", "coupon", "student discount", "free shipping">>

\* lines 258-266: the badges whose text is visible, in the order of the list
RECURSIVE promo_loop(_, _, _)
promo_loop(page, badges, i) ==
  IF i > Len(badges) THEN <<>>
  ELSE (IF get_by_text(page, badges[i]) = "visible" THEN <<badges[i]>> ELSE <<>>)
       \o promo_loop(page, badges, i + 1)

\* str(x).split("/")[-1]
LastSegment(x) ==
  CASE x.t = "path" -> IF Len(x.v) = 0 THEN Path(<<>>)
                       ELSE IF x.v[Len(x.v)] = "" THEN Path(<<>>) ELSE S(x.v[Len(x.v)])
    [] x.t = "num" -> S("number")
    [] OTHER -> S("object")

\* the queries scrape_lenovo_pdp makes on the page, given what it found
LenovoQueries(price_text_sel, availability_ld, availability_sel, eta_sel) ==
  {"jsonld", "price_selectors"}
    \cup (IF ~Truthy(price_text_sel) THEN {"price_text"} ELSE {})
    \cup (IF ~Truthy(availability_ld) THEN {"avail_selectors"} ELSE {})
    \cup (IF ~Truthy(availability_ld) /\ ~Truthy(availability_sel) THEN {"avail_text"} ELSE {})
    \cup {"ship_selectors"}
    \cup (IF ~Truthy(eta_sel) THEN {"ship_text"} ELSE {})
    \cup {"promos"}

Raised(qs) == [raised |-> TRUE, queries |-> qs]
Returned(rec, qs) == [raised |-> FALSE, data |-> rec, queries |-> qs]

scrape_lenovo_pdp(page, url) ==
  IF page.goto = "raise" THEN Raised({})
  ELSE
  LET ld == read_jsonld_from_dom(page)
      ex == extract_product_from_jsonld(ld)
  IN
  IF ex.raised THEN Raised({"jsonld"})
  ELSE
  LET prod == ex.prod
      offers == IF Truthy(prod) THEN PyOr(Get(prod, "offers"), Dict(<<>>)) ELSE Dict(<<>>)
      agg == IF Truthy(prod) THEN PyOr(Get(prod, "aggregateRating"), Dict(<<>>)) ELSE Dict(<<>>)
      price_text_sel == price_selector_loop(page.price_sel, 1, None)
      price_text == IF ~Truthy(price_text_sel)
                    THEN price_pattern_loop(page.price_pat, 1, price_text_sel)
                    ELSE price_text_sel
      qs_price == {"jsonld", "price_selectors"}
                    \cup (IF ~Truthy(price_text_sel) THEN {"price_text"} ELSE {})
  IN
  \* line 168: offers.get on a truthy value that is no dict raises
  IF Truthy(offers) /\ ~IsDict(offers) THEN Raised(qs_price)
  ELSE
  LET availability_ld == IF Truthy(offers) /\ Truthy(Get(offers, "availability"))
                         THEN LastSegment(Get(offers, "availability")) ELSE None
      availability_sel == IF ~Truthy(availability_ld)
                          THEN avail_selector_loop(page.avail_sel, 1) ELSE availability_ld
      availability == IF ~Truthy(availability_sel)
                      THEN avail_phrase_loop(page, 1) ELSE availability_sel
      eta_sel == ship_selector_loop(page.ship_sel, 1)
      shipping_eta == IF ~Truthy(eta_sel) THEN ship_pattern_loop(page.ship_pat, 1, eta_sel)
                      ELSE eta_sel
      promos == promo_loop(page, LenovoPromos, 1)
      price_val == IF IsDict(offers) THEN Get(offers, "price") ELSE None
      price == PyOr(money_to_float(price_val), money_to_float(price_text))
      cur == IF IsDict(offers) THEN Get(offers, "priceCurrency") ELSE None
      currency == PyOr(PyOr(cur, pick_currency(price_val)), pick_currency(price_text))
      qs == LenovoQueries(price_text_sel, availability_ld, availability_sel, eta_sel)
  IN
  \* line 276: agg.get on a truthy value that is no dict raises
  IF Truthy(agg) /\ ~IsDict(agg) THEN Raised(qs)
  ELSE
  Returned([source_url |-> url,
            price |-> price,
            currency |-> currency,
            availability |-> availability,
            shipping_eta |-> shipping_eta,
            promo_badges |-> promos,
            seller |-> "Lenovo",
            aggregate_rating |-> IF Truthy(agg) THEN Get(agg, "ratingValue") ELSE None,
            aggregate_review_count |->
               IF Truthy(agg) THEN PyOr(Get(agg, "reviewCount"), Get(agg, "ratingCount")) ELSE None,
            fetched_at |-> now_iso], qs)

(***************************************************************************)
(* unified_scraper.scrape_hp_pdp                                           *)
(* page fields: goto, price_sel, price_pat, ship_pat, words, text_raise,   *)
(* blocks.                                                                 *)
(***************************************************************************)
\* lines 298-311: the first visible element's text, whatever it is
RECURSIVE hp_price_selector_loop(_, _)
hp_price_selector_loop(outs, i) ==
  IF i > Len(outs) THEN None
  ELSE IF outs[i].e = "visible" THEN outs[i].text
  ELSE hp_price_selector_loop(outs, i + 1)

\* lines 323-332: one try around the three lookups
hp_availability(page) ==
  LET a == get_by_text(page, "add to cart")
      b == get_by_text(page, "out of stock")
      c == get_by_text(page, "customize & buy")
  IN CASE a = "raise" -> S("UNKNOWN")
       [] a = "visible" -> S("IN_STOCK")
       [] b = "raise" -> S("UNKNOWN")
       [] b = "visible" -> S("OUT_OF_STOCK")
       [] c = "raise" -> S("UNKNOWN")
       [] c = "visible" -> S("CUSTOMIZABLE")
       [] OTHER -> S("UNKNOWN")

HpPromos == <<"free storewide shipping", "3% back in hp rewards", "weekly deals", "save $", "instant rebate">>

\* lines 350-360: everything inside one try
hp_aggregate(page) ==
  LET ex == extract_product_from_jsonld(read_jsonld_from_dom(page)) IN
  IF ex.raised \/ ~Truthy(ex.prod) THEN [rating |-> None, count |-> None]
  ELSE LET agg == PyOr(Get(ex.prod, "aggregateRating"), Dict(<<>>)) IN
       IF ~IsDict(agg) THEN [rating |-> None, count |-> None]
       ELSE [rating |-> Get(agg, "ratingValue"),
             count |-> PyOr(Get(agg, "reviewCount"), Get(agg, "ratingCount"))]

scrape_hp_pdp(page, url) ==
  IF page.goto = "raise" THEN Raised({})
  ELSE
  LET price_text_sel == hp_price_selector_loop(page.price_sel, 1)
      price_text == IF ~Truthy(price_text_sel)
                    THEN (IF page.price_pat[1].e = "visible" THEN page.price_pat[1].text
                          ELSE price_text_sel)
                    ELSE price_text_sel
      o == page.ship_pat[1]
      shipping_eta == IF o.e = "visible" THEN PyOr(o.text, Str(<<>>)) ELSE None
      agg == hp_aggregate(page)
  IN
  Returned([source_url |-> url,
            price |-> money_to_float(price_text),
            currency |-> pick_currency(price_text),
            availability |-> hp_availability(page),
            shipping_eta |-> shipping_eta,
            promo_badges |-> promo_loop(page, HpPromos, 1),
            seller |-> "HP",
            aggregate_rating |-> agg.rating,
            aggregate_review_count |-> agg.count,
            fetched_at |-> now_iso],
           {"price_selectors"}
             \cup (IF ~Truthy(price_text_sel) THEN {"price_text"} ELSE {})
             \cup {"avail_text", "ship_text", "promos", "jsonld"})

(***************************************************************************)
(* unified_scraper.scrape_hp_reviews_page / scrape_lenovo_reviews_page     *)
(* page fields: goto, body_rating / body_count (the number the first       *)
(* matching pattern captures in the body text, None when no pattern        *)
(* matches), cards (what the per-card selectors yield), qblocks.           *)
(* A card text is None or Text(n), n the length of the stripped text.      *)
(***************************************************************************)
Text(n) == [t |-> "text", n |-> n]

BODY_MIN == 10
TITLE_MIN == 3
HP_MAX_CARDS == 50
LENOVO_MAX_CARDS == 30
HP_MAX_QNA == 20
LENOVO_MAX_QNA == 15

Min(a, b) == IF a < b THEN a ELSE b

\* lines 406-433: the keys are set only when a pattern matched
review_aggregate(page, url) ==
  [source_url |-> S(url), fetched_at |-> now_iso]
    @@ (IF IsNone(page.body_rating) THEN <<>> ELSE [aggregate_rating |-> page.body_rating])
    @@ (IF IsNone(page.body_count) THEN <<>> ELSE [aggregate_review_count |-> page.body_count])

\* the same test with "at least" thresholds
KeepCardAtLeast(c) ==
  \/ ~IsNone(c.rating)
  \/ (~IsNone(c.body) /\ c.body.n >= BODY_MIN)
  \/ (~IsNone(c.title) /\ c.title.n >= TITLE_MIN)

\* line 584 / 889: only add review if we have meaningful content
KeepCard(c) ==
  \/ ~IsNone(c.rating)
  \/ (~IsNone(c.body) /\ c.body.n > BODY_MIN)
  \/ (~IsNone(c.title) /\ c.title.n > TITLE_MIN)

RECURSIVE review_cards(_, _, _, _)
review_cards(cards, i, n, url) ==
  IF i > n THEN <<>>
  ELSE (IF KeepCard(cards[i])
        THEN << [source_url |-> url, rating |-> cards[i].rating, title |-> cards[i].title,
                 body |-> cards[i].body, fetched_at |-> now_iso] >>
        ELSE <<>>) \o review_cards(cards, i + 1, n, url)

\* line 664 / 996: if qtxt or ans
RECURSIVE qna_blocks(_, _, _, _)
qna_blocks(qb, i, n, url) ==
  IF i > n THEN <<>>
  ELSE (IF ~IsNone(qb[i].q) \/ ~IsNone(qb[i].a)
        THEN << [source_url |-> url, question |-> qb[i].q, answer |-> qb[i].a,
                 fetched_at |-> now_iso] >>
        ELSE <<>>) \o qna_blocks(qb, i + 1, n, url)

scrape_hp_reviews_page(page, url) ==
  IF page.goto = "raise" THEN [raised |-> TRUE]
  ELSE [raised |-> FALSE,
        rvs |-> review_cards(page.cards, 1, Min(Len(page.cards), HP_MAX_CARDS), url),
        qa |-> qna_blocks(page.qblocks, 1, Min(Len(page.qblocks), HP_MAX_QNA), url),
        agg |-> Dict(review_aggregate(page, url))]

\* the Q&A tab of a Lenovo page is read only when its button is visible
scrape_lenovo_reviews_page(page, url) ==
  IF page.goto = "raise" THEN [raised |-> TRUE]
  ELSE [raised |-> FALSE,
        rvs |-> review_cards(page.cards, 1, Min(Len(page.cards), LENOVO_MAX_CARDS), url),
        qa |-> IF page.qna_tab = "visible"
               THEN qna_blocks(page.qblocks, 1, Min(Len(page.qblocks), LENOVO_MAX_QNA), url)
               ELSE <<>>,
        agg |-> Dict(review_aggregate(page, url))]

(***************************************************************************)
(* targets.TARGETS                                                         *)
(***************************************************************************)
LenovoKeys == <<"lenovo_e14_intel", "lenovo_e14_amd">>
HpKeys == <<"hp_probook_440", "hp_probook_450">>
Keys == {"lenovo_e14_intel", "lenovo_e14_amd", "hp_probook_440", "hp_probook_450"}

TARGETS ==
  [k \in Keys |->
     CASE k = "lenovo_e14_intel" -> [pdp |-> "LENOVO_E14_INTEL_URL", reviews |-> <<>>]
       [] k = "lenovo_e14_amd" -> [pdp |-> "LENOVO_E14_AMD_URL", reviews |-> <<>>]
       [] k = "hp_probook_440" ->
            [pdp |-> "HP_PROBOOK_440_PDP",
             reviews |-> <<"HP_PROBOOK_440_REVIEWS", "HP_PROBOOK_440_REVIEWS_SKU">>]
       [] OTHER -> [pdp |-> "HP_PROBOOK_450_PDP", reviews |-> <<"HP_PROBOOK_450_REVIEWS">>]]

Vendor(k) == IF k \in {"lenovo_e14_intel", "lenovo_e14_amd"} THEN "Lenovo" ELSE "HP"

\* the pages main visits, in the order of its four loops (lines 1046-1093)
RECURSIVE ReviewWork(_, _, _)
ReviewWork(keys, i, j) ==
  IF i > Len(keys) THEN <<>>
  ELSE IF j > Len(TARGETS[keys[i]].reviews) THEN ReviewWork(keys, i + 1, 1)
  ELSE << [kind |-> "reviews", key |-> keys[i], url |-> TARGETS[keys[i]].reviews[j]] >>
         \o ReviewWork(keys, i, j + 1)

PdpWork(keys) == [i \in 1..Len(keys) |-> [kind |-> "pdp", key |-> keys[i], url |-> TARGETS[keys[i]].pdp]]

Work == PdpWork(LenovoKeys) \o PdpWork(HpKeys) \o ReviewWork(LenovoKeys, 1, 1) \o ReviewWork(HpKeys, 1, 1)

(***************************************************************************)
(* The pages a run may meet                                                *)
(***************************************************************************)
NoSel(n) == [i \in 1..n |-> Hidden]
ProductNode(offers, agg) ==
  Dict([x \in {"@type"} |-> S("Product")] @@ offers @@ agg)

BlankLenovoPage ==
  [goto |-> "ok", blocks |-> <<>>, price_sel |-> NoSel(9), price_pat |-> NoSel(3),
   avail_sel |-> NoSel(4), ship_sel |-> NoSel(5), ship_pat |-> NoSel(4),
   words |-> {}, text_raise |-> {}]
BlankHpPage ==
  [goto |-> "ok", blocks |-> <<>>, price_sel |-> NoSel(5), price_pat |-> NoSel(1),
   ship_pat |-> NoSel(1), words |-> {}, text_raise |-> {}]

AggBlock(rating, count) ==
  JsonBlock(ProductNode(<<>>, [aggregateRating |-> Dict([ratingValue |-> rating, reviewCount |-> count, ratingCount |-> count])]))

RunLenovoPages ==
  { [BlankLenovoPage EXCEPT !.goto = "raise"],
    [BlankLenovoPage EXCEPT !.blocks = <<AggBlock(Num(40), Num(7))>>,
                            !.price_sel[1] = Visible(Str(<<NumTok("$", 89900, "")>>)),
                            !.words = {"add to cart"}] }

RunHpPages ==
  { [BlankHpPage EXCEPT !.goto = "raise"],
    [BlankHpPage EXCEPT !.price_sel[1] = Visible(Str(<<NumTok("$", 79999, "")>>)),
                        !.words = {"add to cart"}],
    [BlankHpPage EXCEPT !.blocks = <<AggBlock(Num(40), Num(7))>>],
    [BlankHpPage EXCEPT !.blocks = <<AggBlock(Num(0), Num(0))>>] }

BlankReviewPage ==
  [goto |-> "ok", body_rating |-> None, body_count |-> None, cards |-> <<>>,
   qblocks |-> <<>>, qna_tab |-> "visible"]
Card1 == [rating |-> Num(50), title |-> Text(12), body |-> Text(40)]
QBlock1 == [q |-> Text(20), a |-> Text(30)]

\* review cards / question blocks on a page that has any
MaxCardsPerPage == 2
MaxQnaPerPage == 1
SomeCards == [i \in 1..MaxCardsPerPage |-> Card1]
SomeQBlocks == [i \in 1..MaxQnaPerPage |-> QBlock1]

RunReviewPages ==
  { [BlankReviewPage EXCEPT !.goto = "raise"],
    BlankReviewPage,
    [BlankReviewPage EXCEPT !.cards = SomeCards, !.body_rating = Num(45), !.body_count = Num(12)],
    [BlankReviewPage EXCEPT !.qblocks = SomeQBlocks, !.body_rating = Num(0), !.body_count = Num(0)],
    [BlankReviewPage EXCEPT !.cards = SomeCards, !.qblocks = SomeQBlocks] }

(***************************************************************************)
(* State                                                                   *)
(*  pc              where unified_scraper.main is                          *)
(*  attempt_number  launches tried by get_browser (tenacity's counter)     *)
(*  slept           seconds get_browser waited between attempts            *)
(*  play, browser   the Playwright driver and the browser process          *)
(*  step            index into Work of the page main is about to scrape    *)
(*  navigated       the URLs page.goto was called with, in order           *)
(*  warned          the pages main printed a [WARN] line for               *)
(*  offers, reviews_map, qna_map   the maps main collects                  *)
(*  OUT_OFFERS, OUT_REVIEWS, OUT_QNA   the persisted documents             *)
(*  page_in, page_out   a single product page and the outcome of scraping  *)
(*                      it (specification SpecPage)                        *)
(*  all_results, live_data, live_offers, live_reviews, live_qna            *)
(*                      scraper.py's run (specification SpecLegacy), which *)
(*                      shares pc, play, browser, step, navigated, warned  *)
(*                      and slept                                          *)
(*  dedup_in, dedup_out   a list of candidates and what                    *)
(*                      _deduplicate_matches returns for it (SpecDedup)    *)
(*  ingest_pc           where run_full_ingestion is ("off": no             *)
(*                      orchestrator, the scraper runs on its own)         *)
(*  specs_data          what parse_all_pdfs returned                       *)
(*  laptop_mapping      model_key -> laptop id                             *)
(*  db, session         the committed rows of the catalog store and the    *)
(*                      rows added and not committed (SpecIngest)          *)
(***************************************************************************)
VARIABLES pc, attempt_number, slept, play, browser, step, navigated,
          warned, offers, reviews_map, qna_map, OUT_OFFERS, OUT_REVIEWS, OUT_QNA,
          page_in, page_out,
          all_results, live_data, live_offers, live_reviews, live_qna,
          dedup_in, dedup_out,
          ingest_pc, specs_data, laptop_mapping, db, session

vars == <<pc, attempt_number, slept, play, browser, step, navigated,
          warned, offers, reviews_map, qna_map, OUT_OFFERS, OUT_REVIEWS, OUT_QNA,
          page_in, page_out,
          all_results, live_data, live_offers, live_reviews, live_qna,
          dedup_in, dedup_out,
          ingest_pc, specs_data, laptop_mapping, db, session>>

\* the offers-only scraper (scraper.py): the results scrape_all_urls collects
\* and the four files save_results writes
legacyvars == <<all_results, live_data, live_offers, live_reviews, live_qna>>

\* pdf_parser.py: a list of candidates and what _deduplicate_matches makes of
\* it (specification SpecDedup)
parservars == <<dedup_in, dedup_out>>

\* ingest_data.py: where run_full_ingestion is, what parse_all_pdfs returned,
\* the model_key -> laptop id mapping, the committed rows of the catalog
\* store and the rows the session has added but not committed (specification
\* SpecIngest, which runs unified_scraper.main inside)
ingestvars == <<ingest_pc, specs_data, laptop_mapping, db, session>>

\* the parts of the state that belong to no scraper
IdleParser == dedup_in = <<>> /\ dedup_out = [state |-> "idle"]
IdleIngest ==
  /\ ingest_pc = "off"
  /\ specs_data = <<>>
  /\ laptop_mapping = <<>>
  /\ db = [Laptop |-> <<>>, Offer |-> <<>>, Review |-> <<>>, QnA |-> <<>>]
  /\ session = <<>>

\* one product page on its own: the page given to scrape_lenovo_pdp /
\* scrape_hp_pdp, and what the call did
pagevars == <<page_in, page_out>>
runvars == <<pc, attempt_number, slept, play, browser, step, navigated,
             warned, offers, reviews_map, qna_map, OUT_OFFERS, OUT_REVIEWS, OUT_QNA>>

docs == <<OUT_OFFERS, OUT_REVIEWS, OUT_QNA>>
maps == <<offers, reviews_map, qna_map>>

STOP_AFTER_ATTEMPT == 3
WAIT_FIXED == 1

NoFile == [exists |-> FALSE]
File(data) == [exists |-> TRUE, data |-> data]

\* documents an earlier run (or the bundled sample data) left on disk
PriorOffers == [k \in Keys |-> << [source_url |-> "prior", price |-> Num(59900)] >>]
PriorReviews == [k \in Keys |-> << [source_url |-> "prior", rating |-> Num(40)] >>]
PriorQna == [k \in Keys |-> << [source_url |-> "prior", question |-> Text(9)] >>]

RECURSIVE SumLen(_, _)
SumLen(m, ks) ==
  IF ks = {} THEN 0
  ELSE LET k == CHOOSE k \in ks : TRUE IN Len(m[k]) + SumLen(m, ks \ {k})

\* sum(len(v) for v in m.values())
Total(m) == SumLen(m, DOMAIN m)

Init ==
  /\ pc = "launch"
  /\ attempt_number = 0
  /\ slept = 0
  /\ play = "running"
  /\ browser = "none"
  /\ step = 1
  /\ navigated = <<>>
  /\ warned = {}
  /\ offers = [k \in Keys |-> <<>>]
  /\ reviews_map = [k \in Keys |-> <<>>]
  /\ qna_map = [k \in Keys |-> <<>>]
  /\ page_in = [vendor |-> "none"]
  /\ page_out = [state |-> "idle"]
  /\ all_results = <<>>
  /\ live_data = NoFile
  /\ live_offers = NoFile
  /\ live_reviews = NoFile
  /\ live_qna = NoFile
  /\ IdleParser
  /\ IdleIngest
  /\ \E had \in BOOLEAN :
       /\ OUT_OFFERS = IF had THEN File(PriorOffers) ELSE NoFile
       /\ OUT_REVIEWS = IF had THEN File(PriorReviews) ELSE NoFile
       /\ OUT_QNA = IF had THEN File(PriorQna) ELSE NoFile

(***************************************************************************)
(* get_browser: @retry(stop=stop_after_attempt(3), wait=wait_fixed(1))     *)
(***************************************************************************)
GiveUpLate(n) == n > STOP_AFTER_ATTEMPT
GiveUp(n) == n >= STOP_AFTER_ATTEMPT

LaunchOk ==
  /\ pc = "launch"
  /\ attempt_number' = attempt_number + 1
  /\ browser' = "open"
  /\ pc' = "setup"
  /\ UNCHANGED <<slept, play, step, navigated, warned, maps, docs, pagevars, legacyvars, parservars, ingestvars>>

LaunchFailSkipsTarget ==
  /\ pc = "launch"
  /\ attempt_number' = attempt_number + 1
  /\ pc' = IF GiveUp(attempt_number + 1) THEN "scrape" ELSE "wait"
  /\ UNCHANGED <<slept, play, browser, step, navigated, warned, maps, docs, pagevars, legacyvars, parservars, ingestvars>>

\* the launch raises: retry after the wait, or give up and leave main through
\* the "async with", which stops the driver
LaunchFail ==
  /\ pc = "launch"
  /\ attempt_number' = attempt_number + 1
  /\ IF GiveUp(attempt_number + 1)
     THEN pc' = "raised" /\ play' = "stopped"
     ELSE pc' = "wait" /\ play' = play
  /\ UNCHANGED <<slept, browser, step, navigated, warned, maps, docs, pagevars, legacyvars, parservars, ingestvars>>

RetryWait ==
  /\ pc = "wait"
  /\ slept' = slept + WAIT_FIXED
  /\ pc' = "launch"
  /\ UNCHANGED <<attempt_number, play, browser, step, navigated, warned, maps, docs, pagevars, legacyvars, parservars, ingestvars>>

(***************************************************************************)
(* main, lines 1030-1043: browser.new_context, context.new_page            *)
(***************************************************************************)
SetupOk ==
  /\ pc = "setup"
  /\ pc' = "scrape"
  /\ UNCHANGED <<attempt_number, slept, play, browser, step, navigated, warned, maps, docs, pagevars, legacyvars, parservars, ingestvars>>

SetupRaise ==
  /\ pc = "setup"
  /\ pc' = "raised"
  /\ play' = "stopped"
  /\ UNCHANGED <<attempt_number, slept, browser, step, navigated, warned, maps, docs, pagevars, legacyvars, parservars, ingestvars>>

(***************************************************************************)
(* main, lines 1045-1061: the product pages                                *)
(***************************************************************************)
scrape_pdp(key, page) ==
  IF Vendor(key) = "Lenovo" THEN scrape_lenovo_pdp(page, TARGETS[key].pdp)
  ELSE scrape_hp_pdp(page, TARGETS[key].pdp)

\* try: data = await scrape_..._pdp(page, url); offers[key].append(data)
\* except Exception: print("[WARN] ...")
pdp_append_placeholder(lst, r) ==
  IF r.raised THEN Append(lst, [source_url |-> "none", price |-> None]) ELSE Append(lst, r.data)
pdp_append(lst, r) == IF r.raised THEN lst ELSE Append(lst, r.data)

\* where main is after a page: the except clause swallows the error and the
\* loop goes on
except_reraise(r) == IF r.raised THEN "raised" ELSE "scrape"
except_continue(r) == "scrape"

\* the product pages main may meet: a run of main on its own meets any of the
\* run's pages, a run inside run_full_ingestion a failing page or one page
\* of the vendor
IngestLenovoPages ==
  { [BlankLenovoPage EXCEPT !.goto = "raise"],
    [BlankLenovoPage EXCEPT !.price_sel[1] = Visible(Str(<<NumTok("$", 89900, "")>>)),
                            !.words = {"add to cart"}] }
IngestHpPages == { [BlankHpPage EXCEPT !.goto = "raise"], BlankHpPage }
\* a question block of which only the answer was found
AnswerOnly == [q |-> None, a |-> Text(30)]
IngestReviewPages ==
  { BlankReviewPage,
    [BlankReviewPage EXCEPT !.cards = SomeCards, !.qblocks = SomeQBlocks],
    [BlankReviewPage EXCEPT !.cards = SomeCards, !.qblocks = <<AnswerOnly>>] }

PdpPages(key) ==
  IF ingest_pc = "off"
  THEN (IF Vendor(key) = "Lenovo" THEN RunLenovoPages ELSE RunHpPages)
  ELSE (IF Vendor(key) = "Lenovo" THEN IngestLenovoPages ELSE IngestHpPages)
ReviewPages == IF ingest_pc = "off" THEN RunReviewPages ELSE IngestReviewPages

ScrapePdp ==
  /\ pc = "scrape"
  /\ step <= Len(Work)
  /\ Work[step].kind = "pdp"
  /\ LET key == Work[step].key IN
     \E page \in PdpPages(key) :
       LET r == scrape_pdp(key, page) IN
       /\ navigated' = Append(navigated, Work[step].url)
       /\ offers' = [offers EXCEPT ![key] = pdp_append(@, r)]
       /\ warned' = IF r.raised THEN warned \cup {Work[step].url} ELSE warned
       /\ pc' = except_continue(r)
  /\ step' = step + 1
  /\ UNCHANGED <<attempt_number, slept, play, browser, reviews_map, qna_map, docs, pagevars, legacyvars, parservars, ingestvars>>

(***************************************************************************)
(* main, lines 1063-1093: the review pages, with the aggregate backfill    *)
(***************************************************************************)
NeedsFill(current) == ~Truthy(current)

\* lines 1068-1073 / 1084-1089
backfill(o, agg) ==
  LET r == Get(agg, "aggregate_rating")
      c == Get(agg, "aggregate_review_count")
  IN [o EXCEPT
        !.aggregate_rating = IF Truthy(r) /\ NeedsFill(@) THEN r ELSE @,
        !.aggregate_review_count = IF Truthy(c) /\ NeedsFill(@) THEN c ELSE @]

scrape_reviews(key, page, url) ==
  IF Vendor(key) = "Lenovo" THEN scrape_lenovo_reviews_page(page, url)
  ELSE scrape_hp_reviews_page(page, url)

ScrapeReviews ==
  /\ pc = "scrape"
  /\ step <= Len(Work)
  /\ Work[step].kind = "reviews"
  /\ LET key == Work[step].key
         url == Work[step].url
     IN
     \E page \in ReviewPages :
       LET r == scrape_reviews(key, page, url) IN
       /\ navigated' = Append(navigated, url)
       /\ warned' = IF r.raised THEN warned \cup {url} ELSE warned
       /\ pc' = except_continue(r)
       /\ IF r.raised
          THEN UNCHANGED maps
          ELSE /\ offers' = IF Truthy(r.agg) /\ Len(offers[key]) > 0
                            THEN [offers EXCEPT ![key][1] = backfill(@, r.agg)]
                            ELSE offers
               /\ reviews_map' = [reviews_map EXCEPT ![key] = @ \o r.rvs]
               /\ qna_map' = [qna_map EXCEPT ![key] = @ \o r.qa]
  /\ step' = step + 1
  /\ UNCHANGED <<attempt_number, slept, play, browser, docs, pagevars, legacyvars, parservars, ingestvars>>

(***************************************************************************)
(* main, lines 1095-1096: context.close(), browser.close()                 *)
(***************************************************************************)
TeardownOk ==
  /\ pc = "scrape"
  /\ step > Len(Work)
  /\ browser' = "closed"
  /\ play' = "stopped"
  /\ pc' = "persist"
  /\ UNCHANGED <<attempt_number, slept, step, navigated, warned, maps, docs, pagevars, legacyvars, parservars, ingestvars>>

TeardownRaise ==
  /\ pc = "scrape"
  /\ step > Len(Work)
  /\ play' = "stopped"
  /\ pc' = "raised"
  /\ UNCHANGED <<attempt_number, slept, browser, step, navigated, warned, maps, docs, pagevars, legacyvars, parservars, ingestvars>>

(***************************************************************************)
(* main, lines 1098-1116: the persistence step                             *)
(***************************************************************************)
ShouldWriteAlways(total) == TRUE
ShouldWriteFromZero(total) == total >= 0
ShouldWrite(total) == total > 0

\* line 1099: always write offers
offers_document_if_any(old, new) == IF Total(new) > 0 THEN File(new) ELSE old
offers_document(old, new) == File(new)

Persist ==
  /\ pc = "persist"
  /\ OUT_OFFERS' = offers_document(OUT_OFFERS, offers)
  /\ OUT_REVIEWS' = IF ShouldWrite(Total(reviews_map)) THEN File(reviews_map) ELSE OUT_REVIEWS
  /\ OUT_QNA' = IF ShouldWrite(Total(qna_map)) THEN File(qna_map) ELSE OUT_QNA
  /\ pc' = "done"
  /\ UNCHANGED <<attempt_number, slept, play, browser, step, navigated, warned, maps, pagevars, legacyvars, parservars, ingestvars>>

Next ==
  \/ LaunchOk \/ LaunchFail \/ RetryWait
  \/ SetupOk \/ SetupRaise
  \/ ScrapePdp \/ ScrapeReviews
  \/ TeardownOk \/ TeardownRaise
  \/ Persist

Spec == Init /\ [][Next]_vars

(***************************************************************************)
(* scraper.py: the offers-only scraper (LaptopScraper), one run of         *)
(* scraper.main (specification SpecLegacy)                                 *)
(* page fields: goto, blocks, price_sel, price_pat, ship_pat, words,       *)
(* text_raise, as for the pages above.                                     *)
(***************************************************************************)
SCRAPING_URLS ==
  << [key |-> "lenovo_e14_intel", url |-> "LENOVO_E14_INTEL_URL"],
     [key |-> "lenovo_e14_amd", url |-> "LENOVO_E14_AMD_URL"],
     [key |-> "hp_probook_440", url |-> "HP_PROBOOK_440_URL"],
     [key |-> "hp_probook_450", url |-> "HP_PROBOOK_450_URL"] >>

SCRAPING_DELAY == 2

EmptyResult == [offers |-> <<>>, reviews |-> <<>>, qna |-> <<>>]

\* what scrape_lenovo_page / scrape_hp_page leave: the result, and whether
\* the function's own except clause printed an error
Scraped(printed, result) == [printed |-> printed, result |-> result]

legacy_read_jsonld(page) == read_jsonld_from(page.blocks, 1, <<>>)

\* lines 122-127: node.get raises on a node that is no dict
RECURSIVE legacy_product_from(_, _)
legacy_product_from(ld, i) ==
  IF i > Len(ld) THEN [raised |-> FALSE, prod |-> Dict(<<>>)]
  ELSE IF ~IsDict(ld[i]) THEN [raised |-> TRUE, prod |-> Dict(<<>>)]
  ELSE IF IsProductType(Get(ld[i], "@type")) THEN [raised |-> FALSE, prod |-> ld[i]]
  ELSE legacy_product_from(ld, i + 1)

\* lines 135-149 / 220-240: the text of the first visible selector, else the
\* text of the "$" pattern when it is visible
RECURSIVE legacy_price_selector_loop(_, _)
legacy_price_selector_loop(outs, i) ==
  IF i > Len(outs) THEN None
  ELSE IF outs[i].e = "visible" THEN outs[i].text
  ELSE legacy_price_selector_loop(outs, i + 1)

legacy_price_text(page) ==
  LET sel == legacy_price_selector_loop(page.price_sel, 1) IN
  IF ~Truthy(sel) /\ page.price_pat[1].e = "visible" THEN page.price_pat[1].text ELSE sel

LegacyAvailPhrases ==
  << <<"add to cart", "InStock">>, <<"in stock", "InStock">>,
     <<"out of stock", "OutOfStock">>, <<"temporarily unavailable", "OutOfStock">>,
     <<"discontinued", "Discontinued">>, <<"coming soon", "PreOrder">> >>

\* lines 156-169
RECURSIVE legacy_avail_phrase_loop(_, _)
legacy_avail_phrase_loop(page, i) ==
  IF i > Len(LegacyAvailPhrases) THEN None
  ELSE IF get_by_text(page, LegacyAvailPhrases[i][1]) = "visible"
       THEN S(LegacyAvailPhrases[i][2])
  ELSE legacy_avail_phrase_loop(page, i + 1)

\* lines 173-178 / 259-264
legacy_shipping_eta(page) ==
  IF page.ship_pat[1].e = "visible" THEN PyOr(page.ship_pat[1].text, Str(<<>>)) ELSE None

\* line 198: (availability or "").lower() in ("instock", "in stock", "preorder")
legacy_is_available(availability) ==
  /\ Truthy(availability)
  /\ Lower(availability.v[1]) \in {"instock", "in stock", "preorder"}

\* lines 195-203 / 276-284
legacy_offer(price, currency, is_available, availability_text, promos, shipping_eta) ==
  [price |-> IF ~IsNone(price) THEN price ELSE Num(0),
   currency |-> PyOr(currency, S("USD")),
   is_available |-> is_available,
   availability_text |-> availability_text,
   promotions |-> promos,
   shipping_eta |-> shipping_eta,
   timestamp |-> now_iso]

\* lines 114-208: everything is inside one try whose except prints
scrape_lenovo_page(page) ==
  LET ex == legacy_product_from(legacy_read_jsonld(page), 1) IN
  IF ex.raised THEN Scraped(TRUE, EmptyResult)
  ELSE
  LET offers_ld == Get(ex.prod, "offers") IN
  \* line 134: offers.get on a truthy value that is no dict raises
  IF Truthy(offers_ld) /\ ~IsDict(offers_ld) THEN Scraped(TRUE, EmptyResult)
  ELSE
  LET has_ld_price == IF Truthy(offers_ld) THEN Truthy(Get(offers_ld, "price")) ELSE FALSE
      price_text == IF has_ld_price THEN None ELSE legacy_price_text(page)
      availability_ld == IF Truthy(offers_ld) /\ Truthy(Get(offers_ld, "availability"))
                         THEN LastSegment(Get(offers_ld, "availability")) ELSE None
      availability == IF ~Truthy(availability_ld)
                      THEN legacy_avail_phrase_loop(page, 1) ELSE availability_ld
      price_val == IF IsDict(offers_ld) THEN Get(offers_ld, "price") ELSE None
      price == PyOr(legacy_money_to_float(price_val), legacy_money_to_float(price_text))
      cur == IF IsDict(offers_ld) THEN Get(offers_ld, "priceCurrency") ELSE None
      currency == PyOr(PyOr(cur, pick_currency(price_val)), pick_currency(price_text))
  IN
  IF ~IsNone(price) \/ Truthy(availability)
  THEN Scraped(FALSE,
         [EmptyResult EXCEPT !.offers =
            << legacy_offer(price, currency, legacy_is_available(availability),
                            PyOr(availability, Str(<<>>)),
                            promo_loop(page, LenovoPromos, 1), legacy_shipping_eta(page)) >>])
  ELSE Scraped(FALSE, EmptyResult)

\* lines 211-289
scrape_hp_page(page) ==
  LET price_text == legacy_price_text(page)
      price == legacy_money_to_float(price_text)
      currency == pick_currency(price_text)
      availability == hp_availability(page)
  IN
  IF ~IsNone(price) \/ availability # S("UNKNOWN")
  THEN Scraped(FALSE,
         [EmptyResult EXCEPT !.offers =
            << legacy_offer(price, currency,
                            availability \in {S("IN_STOCK"), S("CUSTOMIZABLE")},
                            availability,
                            promo_loop(page, HpPromos, 1), legacy_shipping_eta(page)) >>])
  ELSE Scraped(FALSE, EmptyResult)

\* lines 294-311 of scrape_single_url: goto, then the vendor's function; the
\* except clause prints and returns the empty result
scrape_single_url(page, key) ==
  IF page.goto = "raise" THEN Scraped(TRUE, EmptyResult)
  ELSE IF Vendor(key) = "Lenovo" THEN scrape_lenovo_page(page)
  ELSE scrape_hp_page(page)

\* the pages a run of the offers-only scraper may meet
BlankLegacyPage ==
  [goto |-> "ok", blocks |-> <<>>, price_sel |-> NoSel(3), price_pat |-> NoSel(1),
   ship_pat |-> NoSel(1), words |-> {}, text_raise |-> {}]

LegacyLenovoPages ==
  { [BlankLegacyPage EXCEPT !.goto = "raise"],
    BlankLegacyPage,
    [BlankLegacyPage EXCEPT
       !.blocks = << JsonBlock(ProductNode(
                       [offers |-> Dict([price |-> Str(<<NumTok("$", 89900, "")>>),
                                         availability |-> Path(<<"https:", "", "schema.org", "InStock">>)])],
                       <<>>)) >>],
    [BlankLegacyPage EXCEPT !.blocks = << JsonBlock(Str(<<>>)) >>],
    [BlankLegacyPage EXCEPT !.words = {"add to cart"}] }

LegacyHpPages ==
  { [BlankLegacyPage EXCEPT !.goto = "raise", !.price_sel = NoSel(5)],
    [BlankLegacyPage EXCEPT !.price_sel = NoSel(5)],
    [BlankLegacyPage EXCEPT !.price_sel = [NoSel(5) EXCEPT ![1] = Visible(Str(<<NumTok("$", 79999, "")>>))],
                            !.words = {"add to cart"}],
    [BlankLegacyPage EXCEPT !.price_sel = NoSel(5), !.words = {"add to cart"}] }

InitLegacy ==
  /\ pc = "create_browser_context"
  /\ attempt_number = 0
  /\ slept = 0
  /\ play = "running"
  /\ browser = "none"
  /\ step = 1
  /\ navigated = <<>>
  /\ warned = {}
  /\ offers = [k \in Keys |-> <<>>]
  /\ reviews_map = [k \in Keys |-> <<>>]
  /\ qna_map = [k \in Keys |-> <<>>]
  /\ OUT_OFFERS = NoFile
  /\ OUT_REVIEWS = NoFile
  /\ OUT_QNA = NoFile
  /\ page_in = [vendor |-> "none"]
  /\ page_out = [state |-> "idle"]
  /\ all_results = <<>>
  /\ \E had \in BOOLEAN :
       /\ live_data = IF had THEN File("prior") ELSE NoFile
       /\ live_offers = IF had THEN File(PriorOffers) ELSE NoFile
       /\ live_reviews = IF had THEN File(PriorReviews) ELSE NoFile
       /\ live_qna = IF had THEN File(PriorQna) ELSE NoFile
  /\ IdleParser
  /\ IdleIngest

unifiedvars == <<attempt_number, maps, docs, pagevars>>
legacyfiles == <<live_data, live_offers, live_reviews, live_qna>>

\* lines 69-79 and 318: launch and new_context, before the try of
\* scrape_all_urls
CreateBrowserContextOk ==
  /\ pc = "create_browser_context"
  /\ browser' = "open"
  /\ pc' = "scrape_single_url"
  /\ UNCHANGED <<slept, play, step, navigated, warned, all_results, legacyfiles, unifiedvars, parservars, ingestvars>>

\* launch raises (no browser), or new_context raises (the browser was launched
\* and nothing closes it); the "async with" stops the driver
CreateBrowserContextRaise ==
  /\ pc = "create_browser_context"
  /\ \E launched \in BOOLEAN : browser' = IF launched THEN "open" ELSE "none"
  /\ play' = "stopped"
  /\ pc' = "raised_in_create_browser_context"
  /\ UNCHANGED <<slept, step, navigated, warned, all_results, legacyfiles, unifiedvars, parservars, ingestvars>>

\* lines 322-324: one target, when scrape_single_url returns
ScrapeSingleUrl ==
  /\ pc = "scrape_single_url"
  /\ step <= Len(SCRAPING_URLS)
  /\ LET key == SCRAPING_URLS[step].key
         url == SCRAPING_URLS[step].url
     IN
     \E page \in (IF Vendor(key) = "Lenovo" THEN LegacyLenovoPages ELSE LegacyHpPages) :
       LET r == scrape_single_url(page, key) IN
       /\ navigated' = Append(navigated, url)
       /\ warned' = IF r.printed THEN warned \cup {url} ELSE warned
       /\ all_results' = [k \in DOMAIN all_results \cup {key} |->
                            IF k = key THEN r.result ELSE all_results[k]]
  /\ pc' = "sleep"
  /\ UNCHANGED <<slept, play, browser, step, legacyfiles, unifiedvars, parservars, ingestvars>>

\* line 292: context.new_page() is outside the try of scrape_single_url; the
\* error leaves scrape_all_urls through its finally, which closes the browser
\* (or fails to)
NewPageRaise ==
  /\ pc = "scrape_single_url"
  /\ step <= Len(SCRAPING_URLS)
  /\ \E closed \in BOOLEAN : browser' = IF closed THEN "closed" ELSE "open"
  /\ play' = "stopped"
  /\ pc' = "raised_in_new_page"
  /\ UNCHANGED <<slept, step, navigated, warned, all_results, legacyfiles, unifiedvars, parservars, ingestvars>>

\* lines 313-314: page.close() in the finally of scrape_single_url raises; the
\* result is lost and the error leaves scrape_all_urls the same way
PageCloseRaise ==
  /\ pc = "scrape_single_url"
  /\ step <= Len(SCRAPING_URLS)
  /\ LET key == SCRAPING_URLS[step].key
         url == SCRAPING_URLS[step].url
     IN
     \E page \in (IF Vendor(key) = "Lenovo" THEN LegacyLenovoPages ELSE LegacyHpPages) :
       /\ navigated' = Append(navigated, url)
       /\ warned' = IF scrape_single_url(page, key).printed THEN warned \cup {url} ELSE warned
  /\ \E closed \in BOOLEAN : browser' = IF closed THEN "closed" ELSE "open"
  /\ play' = "stopped"
  /\ pc' = "raised_in_page_close"
  /\ UNCHANGED <<slept, step, all_results, legacyfiles, unifiedvars, parservars, ingestvars>>

\* line 325: await asyncio.sleep(SCRAPING_DELAY), after every target
Sleep ==
  /\ pc = "sleep"
  /\ slept' = slept + SCRAPING_DELAY
  /\ step' = step + 1
  /\ pc' = "scrape_single_url"
  /\ UNCHANGED <<play, browser, navigated, warned, all_results, legacyfiles, unifiedvars, parservars, ingestvars>>

\* lines 326-328: return all_results; finally: await browser.close()
BrowserCloseOk ==
  /\ pc = "scrape_single_url"
  /\ step > Len(SCRAPING_URLS)
  /\ browser' = "closed"
  /\ play' = "stopped"
  /\ pc' = "save_results"
  /\ UNCHANGED <<slept, step, navigated, warned, all_results, legacyfiles, unifiedvars, parservars, ingestvars>>

BrowserCloseRaise ==
  /\ pc = "scrape_single_url"
  /\ step > Len(SCRAPING_URLS)
  /\ play' = "stopped"
  /\ pc' = "raised_in_browser_close"
  /\ UNCHANGED <<slept, browser, step, navigated, warned, all_results, legacyfiles, unifiedvars, parservars, ingestvars>>

\* lines 330-343: the four files are written whatever the results hold
SaveResults ==
  /\ pc = "save_results"
  /\ live_data' = File(all_results)
  /\ live_offers' = File([k \in DOMAIN all_results |-> all_results[k].offers])
  /\ live_reviews' = File([k \in DOMAIN all_results |-> all_results[k].reviews])
  /\ live_qna' = File([k \in DOMAIN all_results |-> all_results[k].qna])
  /\ pc' = "legacy_done"
  /\ UNCHANGED <<slept, play, browser, step, navigated, warned, all_results, unifiedvars, parservars, ingestvars>>

NextLegacy ==
  \/ CreateBrowserContextOk \/ CreateBrowserContextRaise
  \/ ScrapeSingleUrl \/ NewPageRaise \/ PageCloseRaise
  \/ Sleep
  \/ BrowserCloseOk \/ BrowserCloseRaise
  \/ SaveResults

SpecLegacy == InitLegacy /\ [][NextLegacy]_vars

\* both scrapers: a run of unified_scraper.main or a run of scraper.main
InitScrapers == Init \/ InitLegacy
NextScrapers == Next \/ NextLegacy
SpecScrapers == InitScrapers /\ [][NextScrapers]_vars

(***************************************************************************)
(* ingest_data.DataIngestion (SpecIngest)                                  *)
(* db holds the committed rows of the four tables, session the rows added  *)
(* and not yet committed.  A text column holds the value the record had.   *)
(***************************************************************************)
KeyOrder == LenovoKeys \o HpKeys

\* dict.get(key) of a record read back from a JSON document
RecGet(o, f) == IF f \in DOMAIN o THEN o[f] ELSE None

EmptyDb == [Laptop |-> <<>>, Offer |-> <<>>, Review |-> <<>>, QnA |-> <<>>]

\* rows an earlier ingestion left in the store
StaleDb ==
  [EmptyDb EXCEPT !.Laptop = << [id |-> 1, brand |-> "Lenovo", model_name |-> "stale",
                                 specs_json |-> <<>>] >>]

\* database.py: the mapped attributes of class Offer (columns and the
\* relationship), which are the keyword arguments its constructor accepts
OfferAttributes ==
  {"id", "laptop_id", "price", "currency", "is_available", "shipping_eta",
   "promotions", "timestamp", "laptop"}

\* the declarative constructor: a keyword that is no attribute of the class
\* raises TypeError
Offer(kwargs) ==
  IF DOMAIN kwargs \subseteq OfferAttributes
  THEN [raised |-> FALSE, row |-> kwargs]
  ELSE [raised |-> TRUE]

\* lines 74-94: the keyword arguments of Offer(...)
offer_kwargs(offer_data, laptop_id) ==
  LET price_val == IF IsNone(RecGet(offer_data, "price")) THEN Num(0)
                   ELSE RecGet(offer_data, "price")
  IN [laptop_id |-> laptop_id,
      price |-> price_val,
      currency |-> PyOr(RecGet(offer_data, "currency"), S("USD")),
      is_available |-> IF "is_available" \in DOMAIN offer_data
                       THEN offer_data.is_available ELSE TRUE,
      shipping_eta |-> PyOr(PyOr(RecGet(offer_data, "shipping_eta"),
                                 RecGet(offer_data, "availability_text")), Str(<<>>)),
      promotions |-> IF "promotions" \in DOMAIN offer_data
                     THEN offer_data.promotions ELSE <<>>,
      timestamp |-> now_iso,
      seller |-> RecGet(offer_data, "seller")]

\* lines 109-115
review_row(review_data, laptop_id) ==
  [laptop_id |-> laptop_id,
   rating |-> PyOr(RecGet(review_data, "rating"), Num(0)),
   review_text |-> IF "review_text" \in DOMAIN review_data /\ Truthy(review_data.review_text)
                   THEN review_data.review_text
                   ELSE IF "body" \in DOMAIN review_data THEN review_data.body ELSE Str(<<>>),
   author |-> IF "author" \in DOMAIN review_data THEN review_data.author ELSE S("Anonymous"),
   timestamp |-> now_iso]

\* lines 138-143
qna_row(qna_item, laptop_id) ==
  [laptop_id |-> laptop_id,
   question |-> IF "question" \in DOMAIN qna_item THEN qna_item.question ELSE Str(<<>>),
   answer |-> IF "answer" \in DOMAIN qna_item THEN qna_item.answer ELSE Str(<<>>),
   timestamp |-> now_iso]

\* the store while a function runs: committed rows, pending rows, and
\* whether the function has raised
Store(d, s) == [db |-> d, session |-> s, raised |-> FALSE]

Add(st, table, row) == [st EXCEPT !.session = Append(@, [table |-> table, row |-> row])]

RECURSIVE RowsOf(_, _, _)
RowsOf(s, table, i) ==
  IF i > Len(s) THEN <<>>
  ELSE (IF s[i].table = table THEN <<s[i].row>> ELSE <<>>) \o RowsOf(s, table, i + 1)

\* a NOT NULL column of a pending row is null: the flush of commit() raises
\* IntegrityError (database.py: Offer.price, Review.rating, QnA.question)
ViolatesNotNull(s) ==
  \E i \in 1..Len(s) :
    \/ s[i].table = "QnA" /\ IsNone(s[i].row.question)
    \/ s[i].table = "Review" /\ IsNone(s[i].row.rating)
    \/ s[i].table = "Offer" /\ IsNone(s[i].row.price)

\* self.db.commit()
Commit(st) ==
  IF st.raised THEN st
  ELSE IF ViolatesNotNull(st.session) THEN [st EXCEPT !.raised = TRUE]
  ELSE [st EXCEPT !.db = [t \in DOMAIN st.db |-> st.db[t] \o RowsOf(st.session, t, 1)],
                  !.session = <<>>]

\* self.db.rollback()
Rollback(st) == [st EXCEPT !.session = <<>>, !.raised = FALSE]

\* lines 71-96: the offers of one product
RECURSIVE ingest_offers_of(_, _, _, _)
ingest_offers_of(st, laptop_id, offers_list, i) ==
  IF st.raised \/ i > Len(offers_list) THEN st
  ELSE LET made == Offer(offer_kwargs(offers_list[i], laptop_id)) IN
       IF made.raised THEN [st EXCEPT !.raised = TRUE]
       ELSE ingest_offers_of(Add(st, "Offer", made.row), laptop_id, offers_list, i + 1)

\* lines 65-96: products without a laptop are skipped
RECURSIVE ingest_offers_from(_, _, _, _)
ingest_offers_from(st, mapping, offers_data, i) ==
  IF st.raised \/ i > Len(KeyOrder) THEN st
  ELSE LET model_key == KeyOrder[i] IN
       IF model_key \notin DOMAIN offers_data \/ model_key \notin DOMAIN mapping
       THEN ingest_offers_from(st, mapping, offers_data, i + 1)
       ELSE ingest_offers_from(ingest_offers_of(st, mapping[model_key], offers_data[model_key], 1),
                               mapping, offers_data, i + 1)

ingest_offers(st, mapping, offers_data) ==
  Commit(ingest_offers_from(st, mapping, offers_data, 1))

RECURSIVE ingest_reviews_of(_, _, _, _)
ingest_reviews_of(st, laptop_id, reviews, i) ==
  IF i > Len(reviews) THEN st
  ELSE ingest_reviews_of(Add(st, "Review", review_row(reviews[i], laptop_id)),
                         laptop_id, reviews, i + 1)

RECURSIVE ingest_reviews_from(_, _, _, _)
ingest_reviews_from(st, mapping, reviews_data, i) ==
  IF i > Len(KeyOrder) THEN st
  ELSE LET model_key == KeyOrder[i] IN
       IF model_key \notin DOMAIN reviews_data \/ model_key \notin DOMAIN mapping
       THEN ingest_reviews_from(st, mapping, reviews_data, i + 1)
       ELSE ingest_reviews_from(ingest_reviews_of(st, mapping[model_key], reviews_data[model_key], 1),
                                mapping, reviews_data, i + 1)

\* lines 101-124
ingest_reviews(st, mapping, reviews_data) ==
  Commit(ingest_reviews_from(st, mapping, reviews_data, 1))

RECURSIVE ingest_qna_of(_, _, _, _)
ingest_qna_of(st, laptop_id, qnas, i) ==
  IF i > Len(qnas) THEN st
  ELSE ingest_qna_of(Add(st, "QnA", qna_row(qnas[i], laptop_id)), laptop_id, qnas, i + 1)

RECURSIVE ingest_qna_from(_, _, _, _)
ingest_qna_from(st, mapping, qna_data, i) ==
  IF i > Len(KeyOrder) THEN st
  ELSE LET model_key == KeyOrder[i] IN
       IF model_key \notin DOMAIN qna_data \/ model_key \notin DOMAIN mapping
       THEN ingest_qna_from(st, mapping, qna_data, i + 1)
       ELSE ingest_qna_from(ingest_qna_of(st, mapping[model_key], qna_data[model_key], 1),
                            mapping, qna_data, i + 1)

\* lines 126-148
ingest_qna(st, mapping, qna_data) ==
  Commit(ingest_qna_from(st, mapping, qna_data, 1))

\* lines 150-158: a missing file reads as {}
load_json_file(file) == IF file.exists THEN file.data ELSE <<>>

\* truth of a dict read from a document
NonEmpty(data) == DOMAIN data # {}

\* lines 235-243 and 255-261: each document that is not empty is ingested,
\* in this order; an exception ends the sequence
ingest_documents(st, mapping, offers_data, reviews_data, qna_data) ==
  LET a == IF NonEmpty(offers_data) THEN ingest_offers(st, mapping, offers_data) ELSE st
      b == IF a.raised THEN a
           ELSE IF NonEmpty(reviews_data) THEN ingest_reviews(a, mapping, reviews_data) ELSE a
      c == IF b.raised THEN b
           ELSE IF NonEmpty(qna_data) THEN ingest_qna(b, mapping, qna_data) ELSE b
  IN c

\* lines 275-292
sample_offers(mapping) ==
  [k \in DOMAIN mapping |->
     << [price |-> IF k \in {"lenovo_e14_intel", "lenovo_e14_amd"} THEN Num(89999) ELSE Num(79999),
         currency |-> S("USD"), is_available |-> TRUE,
         availability_text |-> S("In Stock"),
         promotions |-> <<"10% Student Discount">>, timestamp |-> now_iso] >>]
sample_reviews(mapping) ==
  [k \in DOMAIN mapping |->
     << [rating |-> Num(45), review_text |-> Text(72), author |-> S("Business User"),
         timestamp |-> now_iso] >>]

\* lines 269-295
create_sample_data(st, mapping) ==
  LET a == ingest_offers(st, mapping, sample_offers(mapping)) IN
  IF a.raised THEN a ELSE ingest_reviews(a, mapping, sample_reviews(mapping))

\* pdf_parser.parse_pdf on the datasheet of one product: the file is
\* missing, yields no text, yields text in which no pattern matches, or
\* yields specifications
Datasheets == {"missing", "no_text", "no_specs", "specs"}
parse_pdf(model_key, sheet) ==
  CASE sheet \in {"missing", "no_text"} -> <<>>
    [] sheet = "no_specs" -> [model_key |-> model_key, specifications |-> <<>>]
    [] OTHER -> [model_key |-> model_key, specifications |-> [cpu |-> <<"Intel Core i5">>]]

\* pdf_parser.parse_all_pdfs, lines 199-217: only a non-empty result is kept
parse_all_pdfs(folder) ==
  LET kept == {k \in Keys : NonEmpty(parse_pdf(k, folder[k]))} IN
  [k \in kept |-> parse_pdf(k, folder[k])]

\* the datasheet folders of the runs
Folders ==
  { [k \in Keys |-> "missing"],
    [k \in Keys |-> "no_text"],
    [k \in Keys |-> "no_specs"],
    [k \in Keys |-> IF k = "hp_probook_440" THEN "specs" ELSE "missing"],
    [k \in Keys |-> "specs"] }

\* lines 204-209
placeholder_specs ==
  [k \in Keys |->
     [specifications |->
        [cpu |-> << IF k = "lenovo_e14_amd" THEN "AMD processor" ELSE "Intel processor" >>,
         ram |-> << "8GB" >>,
         storage |-> << IF k = "hp_probook_450" THEN "512GB SSD" ELSE "256GB SSD" >>]]]

\* lines 36-41
model_brand_mapping ==
  [k \in Keys |->
     CASE k = "lenovo_e14_intel" -> <<"Lenovo", "ThinkPad E14 Gen 5 (Intel)">>
       [] k = "lenovo_e14_amd" -> <<"Lenovo", "ThinkPad E14 Gen 5 (AMD)">>
       [] k = "hp_probook_440" -> <<"HP", "ProBook 440 G11">>
       [] OTHER -> <<"HP", "ProBook 450 G10">>]

\* the keys of a dict, in the order of iteration
IsKeyOf(data, k) == k \in DOMAIN data
RECURSIVE KeysFrom(_, _)
KeysFrom(data, i) ==
  IF i > Len(KeyOrder) THEN <<>>
  ELSE (IF IsKeyOf(data, KeyOrder[i]) THEN <<KeyOrder[i]>> ELSE <<>>) \o KeysFrom(data, i + 1)

\* lines 43-56: one Laptop per key; flush gives the row its id
laptop_rows(st, data) ==
  LET ks == KeysFrom(data, 1) IN
  [i \in 1..Len(ks) |->
     [table |-> "Laptop",
      row |-> [id |-> Len(st.db.Laptop) + i,
               brand |-> model_brand_mapping[ks[i]][1],
               model_name |-> model_brand_mapping[ks[i]][2],
               specs_json |-> data[ks[i]].specifications]]]

\* line 54: self.laptop_mapping[model_key] = laptop.id
laptop_ids(st, data) ==
  LET ks == KeysFrom(data, 1) IN
  [k \in DOMAIN data |-> Len(st.db.Laptop) + (CHOOSE i \in 1..Len(ks) : ks[i] = k)]

\* lines 32-59
ingest_laptop_specs(st, data) == Commit([st EXCEPT !.session = @ \o laptop_rows(st, data)])

\* lines 200-220: what is loaded as the products
specs_as_parsed(data) == data
specs_or_placeholder(data) == IF NonEmpty(data) THEN data ELSE placeholder_specs

\* line 253: the sample data is created only when no document holds anything
use_sample_data_always(offers_data, reviews_data, qna_data) == TRUE
use_sample_data(offers_data, reviews_data, qna_data) ==
  ~(NonEmpty(offers_data) \/ NonEmpty(reviews_data) \/ NonEmpty(qna_data))

\* the documents on disk when the run starts: none, the three of an earlier
\* run, or only the bundled reviews and QnA
PriorDocuments ==
  { <<NoFile, NoFile, NoFile>>,
    <<File(PriorOffers), File(PriorReviews), File(PriorQna)>>,
    <<NoFile, File(PriorReviews), File(PriorQna)>> }

InitIngest ==
  /\ pc = "launch"
  /\ attempt_number = 0
  /\ slept = 0
  /\ play = "running"
  /\ browser = "none"
  /\ step = 1
  /\ navigated = <<>>
  /\ warned = {}
  /\ offers = [k \in Keys |-> <<>>]
  /\ reviews_map = [k \in Keys |-> <<>>]
  /\ qna_map = [k \in Keys |-> <<>>]
  /\ \E d \in PriorDocuments :
       /\ OUT_OFFERS = d[1]
       /\ OUT_REVIEWS = d[2]
       /\ OUT_QNA = d[3]
  /\ page_in = [vendor |-> "none"]
  /\ page_out = [state |-> "idle"]
  /\ all_results = <<>>
  /\ live_data = NoFile
  /\ live_offers = NoFile
  /\ live_reviews = NoFile
  /\ live_qna = NoFile
  /\ IdleParser
  /\ ingest_pc = "clear_existing_data"
  /\ specs_data = <<>>
  /\ laptop_mapping = <<>>
  /\ db \in {EmptyDb, StaleDb}
  /\ session = <<>>

mainvars == <<runvars, pagevars, legacyvars, parservars>>

\* lines 164-168: create_tables(), clear_existing_data()
ClearExistingData ==
  /\ ingest_pc = "clear_existing_data"
  /\ db' = EmptyDb
  /\ ingest_pc' = "parse_all_pdfs"
  /\ UNCHANGED <<specs_data, laptop_mapping, session, mainvars>>

\* lines 171-173
ParseAllPdfs ==
  /\ ingest_pc = "parse_all_pdfs"
  /\ \E folder \in Folders : specs_data' = parse_all_pdfs(folder)
  /\ ingest_pc' = "ingest_laptop_specs"
  /\ UNCHANGED <<laptop_mapping, db, session, mainvars>>

\* lines 200-220
IngestLaptopSpecs ==
  /\ ingest_pc = "ingest_laptop_specs"
  /\ LET data == specs_or_placeholder(specs_data)
         st == ingest_laptop_specs(Store(db, session), data)
     IN /\ db' = st.db
        /\ session' = st.session
        /\ laptop_mapping' = laptop_ids(Store(db, session), data)
  /\ ingest_pc' = "main"
  /\ UNCHANGED <<specs_data, mainvars>>

\* line 227: await unified_scraper.main()
Main ==
  /\ ingest_pc = "main"
  /\ Next

\* lines 230-243: main returned; the three documents are read and ingested
IngestLive ==
  /\ ingest_pc = "main"
  /\ pc = "done"
  /\ LET st == ingest_documents(Store(db, session), laptop_mapping,
                                load_json_file(OUT_OFFERS), load_json_file(OUT_REVIEWS),
                                load_json_file(OUT_QNA))
     IN /\ db' = st.db
        /\ session' = st.session
        /\ ingest_pc' = IF st.raised THEN "except" ELSE "print_summary"
  /\ UNCHANGED <<specs_data, laptop_mapping, mainvars>>

\* lines 245-264: main raised, or the ingestion after it did; the handler's
\* own calls are in no try
Recover ==
  /\ \/ ingest_pc = "except"
     \/ ingest_pc = "main" /\ pc = "raised"
  /\ LET offers_data == load_json_file(OUT_OFFERS)
         reviews_data == load_json_file(OUT_REVIEWS)
         qna_data == load_json_file(OUT_QNA)
         sample == use_sample_data(offers_data, reviews_data, qna_data)
         st == IF sample
               THEN create_sample_data(Rollback(Store(db, session)), laptop_mapping)
               ELSE ingest_documents(Rollback(Store(db, session)), laptop_mapping,
                                     offers_data, reviews_data, qna_data)
     IN /\ db' = st.db
        /\ session' = st.session
        /\ ingest_pc' = IF ~st.raised THEN "print_summary"
                        ELSE IF sample THEN "raised_in_create_sample_data"
                        ELSE "raised_in_existing_data"
  /\ UNCHANGED <<specs_data, laptop_mapping, mainvars>>

\* lines 266-267
PrintSummary ==
  /\ ingest_pc = "print_summary"
  /\ ingest_pc' = "ingestion_completed"
  /\ UNCHANGED <<specs_data, laptop_mapping, db, session, mainvars>>

NextIngest ==
  \/ ClearExistingData
  \/ ParseAllPdfs
  \/ IngestLaptopSpecs
  \/ Main
  \/ IngestLive
  \/ Recover
  \/ PrintSummary
SpecIngest == InitIngest /\ [][NextIngest]_vars

(***************************************************************************)
(* pdf_parser.PDFParser._deduplicate_matches (SpecDedup)               *)
(* A candidate is the sequence of its whitespace-separated words.  Every   *)
(* candidate that reaches the function has passed the filter of            *)
(* extract_specifications (non-empty after strip), so it has a word.       *)
(***************************************************************************)
\* set(match.lower().split())
Words(match) == {Lower(match[i]) : i \in 1..Len(match)}

Max(a, b) == IF a > b THEN a ELSE b

\* line 164: len(match_words & existing_words) / max(len, len) > 0.8, in
\* tenths so that the comparison is exact
Similar(match, existing) ==
  LET match_words == Words(match)
      existing_words == Words(existing)
  IN 10 * Cardinality(match_words \cap existing_words)
       > 8 * Max(Cardinality(match_words), Cardinality(existing_words))

\* lines 159-167: the inner loop over what has been kept so far
is_unique(match, unique_matches) ==
  \A i \in 1..Len(unique_matches) : ~Similar(match, unique_matches[i])

\* lines 158-170: the outer loop from candidate i on
RECURSIVE dedup_loop(_, _, _)
dedup_loop(matches, i, unique_matches) ==
  IF i > Len(matches) THEN unique_matches
  ELSE dedup_loop(matches, i + 1,
                  IF is_unique(matches[i], unique_matches)
                  THEN Append(unique_matches, matches[i])
                  ELSE unique_matches)

\* a candidate is dropped when it resembles the candidate right before it
RECURSIVE dedup_against_previous(_, _, _)
dedup_against_previous(matches, i, unique_matches) ==
  IF i > Len(matches) THEN unique_matches
  ELSE dedup_against_previous(matches, i + 1,
                  IF i = 1 \/ ~Similar(matches[i], matches[i - 1])
                  THEN Append(unique_matches, matches[i])
                  ELSE unique_matches)

deduplicate_adjacent(matches) ==
  IF matches = <<>> THEN <<>> ELSE dedup_against_previous(matches, 1, <<>>)
deduplicate_matches(matches) ==
  IF matches = <<>> THEN <<>> ELSE dedup_loop(matches, 1, <<>>)

\* the candidates: two five-word ones sharing four words (exactly 80%), the
\* first in another case, a six-word one holding both (5/6 with each), and
\* an unrelated one
CoreI5Processor == <<"intel", "core", "i5", "1335u", "processor">>
CoreI5Cpu == <<"intel", "core", "i5", "1335u", "cpu">>
CoreI5Capitals == <<"Intel", "Core", "i5", "1335u", "processor">>
CoreI5Both == <<"intel", "core", "i5", "1335u", "processor", "cpu">>
Ryzen5 == <<"amd", "ryzen", "5">>
Candidates == {CoreI5Processor, CoreI5Cpu, CoreI5Capitals, CoreI5Both, Ryzen5}

MaxCandidates == 3
CandidateLists ==
  UNION {[1..n -> Candidates] : n \in 0..MaxCandidates}

\* unified_scraper.main not started: nothing launched, collected or written
IdleMain ==
  /\ pc = "idle"
  /\ attempt_number = 0
  /\ slept = 0
  /\ play = "stopped"
  /\ browser = "none"
  /\ step = 1
  /\ navigated = <<>>
  /\ warned = {}
  /\ offers = [k \in Keys |-> <<>>]
  /\ reviews_map = [k \in Keys |-> <<>>]
  /\ qna_map = [k \in Keys |-> <<>>]
  /\ OUT_OFFERS = NoFile
  /\ OUT_REVIEWS = NoFile
  /\ OUT_QNA = NoFile

idlevars == <<runvars, pagevars, legacyvars, ingestvars>>

InitDedup ==
  /\ dedup_in \in CandidateLists
  /\ dedup_out = [state |-> "pending"]
  /\ pc = "idle"
  /\ attempt_number = 0
  /\ slept = 0
  /\ play = "stopped"
  /\ browser = "none"
  /\ step = 1
  /\ navigated = <<>>
  /\ warned = {}
  /\ offers = [k \in Keys |-> <<>>]
  /\ reviews_map = [k \in Keys |-> <<>>]
  /\ qna_map = [k \in Keys |-> <<>>]
  /\ OUT_OFFERS = NoFile
  /\ OUT_REVIEWS = NoFile
  /\ OUT_QNA = NoFile
  /\ page_in = [vendor |-> "none"]
  /\ page_out = [state |-> "idle"]
  /\ all_results = <<>>
  /\ live_data = NoFile
  /\ live_offers = NoFile
  /\ live_reviews = NoFile
  /\ live_qna = NoFile
  /\ IdleIngest

\* unique_matches = self._deduplicate_matches(valid_matches)
Deduplicate ==
  /\ dedup_out.state = "pending"
  /\ dedup_out' = [state |-> "once", r |-> deduplicate_matches(dedup_in)]
  /\ UNCHANGED <<dedup_in, idlevars>>

\* the function applied to its own output
DeduplicateAgain ==
  /\ dedup_out.state = "once"
  /\ dedup_out' = [state |-> "twice", first |-> dedup_out.r,
                   r |-> deduplicate_matches(dedup_out.r)]
  /\ UNCHANGED <<dedup_in, idlevars>>

NextDedup == Deduplicate \/ DeduplicateAgain
SpecDedup == InitDedup /\ [][NextDedup]_vars

(***************************************************************************)
(* pdf_parser.PDFParser.extract_specifications (SpecExtract)               *)
(* The text is given by what re.findall returns for the patterns of each   *)
(* category, in the order of the patterns: a match is the sequence of its  *)
(* words with pad characters of whitespace around them.  No pattern has    *)
(* more than one group, so a match is never a tuple.                       *)
(***************************************************************************)
Categories ==
  {"cpu", "ram", "storage", "display", "graphics", "battery", "ports",
   "dimensions", "weight", "operating_system"}

RawMatch(words, pad) == [words |-> words, pad |-> pad]

\* a word of 94 characters
LongWord == "aaaaaaaaaaaaaaaaaaaaaaaaaaaaaaaaaaaaaaaaaaaaaaaaaaaaaaaaaaaaaaaaaaaaaaaaaaaaaaaaaaaaaaaaaaaaaa"

\* len(word) for the words of the model
Chars(w) ==
  CASE w \in {"5", "7", "*"} -> 1
    [] w \in {"i5", "i7", "up", "to"} -> 2
    [] w \in {"cpu", "amd", "see", "4.6", "ghz", "8gb", "ram"} -> 3
    [] w \in {"Core", "core", "note", "gold", "ddr4", "dual", "16gb"} -> 4
    [] w \in {"Intel", "intel", "1335u", "ryzen", "7530u", "1355u", "7730u"} -> 5
    [] w = "memory" -> 6
    [] w \in {"pentium", "channel"} -> 7
    [] w = "processor" -> 9
    [] w = "processor:" -> 10
    [] OTHER -> 94

\* len(cleaned): the words and the single spaces between them
RECURSIVE CharsUpTo(_, _)
CharsUpTo(words, n) ==
  IF n = 0 THEN 0
  ELSE CharsUpTo(words, n - 1) + Chars(words[n]) + (IF n > 1 THEN 1 ELSE 0)
LenOf(words) == CharsUpTo(words, Len(words))

\* the words of the model that start with one of '*', '•', '-', '(', '[' and
\* those that end with one of ':', '**', '*'
BulletWords == {"*"}
HeaderWords == {"processor:", "*"}

MIN_LEN == 2
MAX_LEN == 100
MAX_VALUES == 5

\* lines 104-108: the generic filter on the stripped match
passes_filter(cleaned) ==
  /\ Len(cleaned) > 0
  /\ LenOf(cleaned) > MIN_LEN
  /\ LenOf(cleaned) < MAX_LEN
  /\ cleaned[1] \notin BulletWords
  /\ cleaned[Len(cleaned)] \notin HeaderWords

\* "term in text_lower", "num in text": the proper substrings among the
\* words of the model and the terms of _is_valid_spec
TermPairs ==
  { <<"16gb", "gb">>, <<"8gb", "gb">>, <<"ddr4", "ddr">>, <<"processor:", "processor">>,
    <<"16gb", "16">>, <<"4.6", "4">>, <<"8gb", "8">>, <<"ddr4", "4">> }
TermInWords(term, words) ==
  \E i \in 1..Len(words) : Lower(words[i]) = term \/ <<Lower(words[i]), term>> \in TermPairs
\* any(char.isdigit() for char in text)
DigitWords ==
  {"1335u", "1355u", "16gb", "4.6", "5", "7", "7530u", "7730u", "8gb", "ddr4", "i5", "i7"}
HasDigit(words) == \E i \in 1..Len(words) : words[i] \in DigitWords

ValidTerms(category) ==
  CASE category = "cpu" -> {"intel", "amd", "processor", "core", "ryzen", "i3", "i5", "i7", "i9"}
    [] category = "ram" -> {"gb", "memory", "ram", "ddr"}
    [] category = "storage" -> {"gb", "tb", "ssd", "nvme", "storage", "drive"}
    [] category = "display" ->
         {"display", "screen", "resolution", "fhd", "hd", "1920", "1366", "\"", "inch"}
    [] category = "graphics" ->
         {"graphics", "gpu", "intel", "amd", "nvidia", "integrated", "iris", "xe", "radeon"}
    [] category = "battery" -> {"wh", "battery", "cell", "hour", "life"}
    [] category = "ports" -> {"usb", "hdmi", "port", "thunderbolt", "ethernet", "audio", "jack"}
    [] category = "weight" -> {"kg", "lb", "pound", "weight"}
    [] category = "dimensions" -> {"x", "×"}
    [] OTHER -> {"windows", "linux", "ubuntu", "chrome", "mac", "dos"}

\* lines 124-150
is_valid_spec(category, text) ==
  category \in Categories =>
  /\ \E term \in ValidTerms(category) : TermInWords(term, text)
  /\ category = "ram" => \E num \in {"4", "8", "16", "32", "64"} : TermInWords(num, text)
  /\ category \in {"weight", "dimensions"} => HasDigit(text)

\* lines 98-113: cleaned_matches
RECURSIVE cleaned_matches(_, _, _)
cleaned_matches(category, matches, i) ==
  IF i > Len(matches) THEN <<>>
  ELSE LET cleaned == matches[i].words IN
       (IF passes_filter(cleaned) /\ is_valid_spec(category, cleaned) THEN <<cleaned>> ELSE <<>>)
         \o cleaned_matches(category, matches, i + 1)

\* lines 116-117
unique_matches(category, matches) ==
  deduplicate_matches(cleaned_matches(category, matches, 1))

\* lines 91-122: only a category with a surviving match gets a key, and at
\* most its first five
extract_specifications(found) ==
  [category \in {c \in DOMAIN found : unique_matches(c, found[c]) # <<>>} |->
     SubSeq(unique_matches(category, found[category]), 1,
            Min(MAX_VALUES, Len(unique_matches(category, found[category]))))]

\* what the cpu patterns may find in a datasheet, in the order of the text
CpuMatches ==
  << RawMatch(CoreI5Capitals, 0),
     RawMatch(CoreI5Cpu, 1),
     RawMatch(CoreI5Processor, 0),
     RawMatch(<<"amd", "ryzen", "5", "7530u">>, 0),
     RawMatch(<<"processor:">>, 0),
     RawMatch(<<"*", "see", "note">>, 0),
     RawMatch(<<"up", "to", "4.6", "ghz">>, 2),
     RawMatch(<<"intel", "core", "i7", "1355u">>, 0),
     RawMatch(<<"amd", "ryzen", "7", "7730u">>, 0),
     RawMatch(<<"intel", "pentium", "gold">>, 0),
     RawMatch(<<"i5">>, 0),
     RawMatch(<<"intel", LongWord>>, 0),
     RawMatch(<<>>, 2) >>
\* and the ram patterns
RamMatches ==
  << RawMatch(<<"8gb", "ddr4", "memory">>, 0),
     RawMatch(<<"dual", "channel", "memory">>, 0),
     RawMatch(<<"16gb", "ram">>, 1) >>

\* the matches at the positions of mask, in their order
RECURSIVE Pick(_, _, _)
Pick(pool, mask, i) ==
  IF i > Len(pool) THEN <<>>
  ELSE (IF i \in mask THEN <<pool[i]>> ELSE <<>>) \o Pick(pool, mask, i + 1)

Found(cpu, ram) ==
  [c \in Categories |-> IF c = "cpu" THEN cpu ELSE IF c = "ram" THEN ram ELSE <<>>]

InitExtract ==
  /\ \E cm \in SUBSET (1..Len(CpuMatches)), rm \in SUBSET (1..Len(RamMatches)) :
       dedup_in = Found(Pick(CpuMatches, cm, 1), Pick(RamMatches, rm, 1))
  /\ dedup_out = [state |-> "pending"]
  /\ IdleMain
  /\ page_in = [vendor |-> "none"]
  /\ page_out = [state |-> "idle"]
  /\ all_results = <<>>
  /\ live_data = NoFile
  /\ live_offers = NoFile
  /\ live_reviews = NoFile
  /\ live_qna = NoFile
  /\ IdleIngest

\* specs = self.extract_specifications(text)
ExtractSpecifications ==
  /\ dedup_out.state = "pending"
  /\ dedup_out' = [state |-> "extracted", r |-> extract_specifications(dedup_in)]
  /\ UNCHANGED <<dedup_in, idlevars>>

NextExtract == ExtractSpecifications
SpecExtract == InitExtract /\ [][NextExtract]_vars

(***************************************************************************)
(* One product page on its own (SpecPage): Init draws the page, the        *)
(* actions apply scrape_lenovo_pdp / scrape_hp_pdp to it.                  *)
(***************************************************************************)
SchemaInStock == Path(<<"https:", "", "schema.org", "InStock">>)

Dollars899 == Str(<<NumTok("$", 89900, "")>>)
Dollars5 == Str(<<NumTok("$", 500, "")>>)

\* offers.price of the Product node: missing, a JSON number, a JSON string
LdPrices ==
  { None, Num(0), Num(500), Num(79999), Num(9999900),
    Str(<<NumTok("", 79999, "")>>), Str(<<NumTok("$", 500, "")>>) }
\* a schema.org availability the code has no phrase for
SchemaBackOrder == Path(<<"https:", "", "schema.org", "BackOrder">>)
LdAvailabilities == { None, SchemaInStock, SchemaBackOrder }
\* priceCurrency: absent, a code, or the symbol
LdCurrencies == { None, S("USD"), S("$") }
SelectorAnswers == { Hidden, Raises, Visible(Dollars899), Visible(Dollars5) }
PatternAnswers == { Hidden, Visible(Dollars899) }
WordSets == { {}, {"add to cart"} }

OffersDict(price, avail, cur) ==
  Dict((IF IsNone(price) THEN <<>> ELSE [price |-> price])
        @@ (IF IsNone(avail) THEN <<>> ELSE [availability |-> avail])
        @@ (IF IsNone(cur) THEN <<>> ELSE [priceCurrency |-> cur]))

\* script blocks that hold no usable JSON-LD, ahead of the Product block
MaxJunkBlocks == 1
JunkBlocks(n) == [i \in 1..n |-> IF i % 2 = 1 THEN MalformedBlock ELSE EmptyBlock]

LdBlocks(price, avail, cur) ==
  IF IsNone(price) /\ IsNone(avail) /\ IsNone(cur) THEN <<>>
  ELSE << JsonBlock(ProductNode([offers |-> OffersDict(price, avail, cur)], <<>>)) >>

LenovoPages ==
  { [BlankLenovoPage EXCEPT !.blocks = JunkBlocks(junk) \o LdBlocks(price, avail, cur),
                            !.price_sel[3] = sel,
                            !.price_pat[1] = pat,
                            !.words = words] :
      price \in LdPrices, avail \in LdAvailabilities, cur \in LdCurrencies,
      sel \in SelectorAnswers,
      pat \in PatternAnswers, words \in WordSets, junk \in 0..MaxJunkBlocks }

\* well-formed JSON-LD of other shapes: a top-level string, a top-level list
\* of numbers, a string after the Product node, offers as a list of offers
\* (schema.org allows several offers), offers as an empty list
ShapedBlocks ==
  { << JsonBlock(S("breadcrumb")) >>,
    << JsonBlock(List(<<Num(1)>>)) >>,
    << JsonBlock(ProductNode([offers |-> OffersDict(Num(79999), SchemaInStock, S("USD"))], <<>>)),
       JsonBlock(S("breadcrumb")) >>,
    << JsonBlock(ProductNode([offers |-> List(<<OffersDict(Num(79999), SchemaInStock, S("USD"))>>)],
                             <<>>)) >>,
    << JsonBlock(ProductNode([offers |-> List(<<>>)], <<>>)) >> }

ShapedLenovoPages ==
  { [BlankLenovoPage EXCEPT !.blocks = JunkBlocks(junk) \o b,
                            !.price_sel[3] = sel,
                            !.words = words] :
      b \in ShapedBlocks, sel \in SelectorAnswers, words \in WordSets,
      junk \in 0..MaxJunkBlocks }

\* pages that show a price, an availability, a shipping text and a promotion,
\* on which every lookup of the sub-steps in faults raises
SubSteps == {"price", "availability", "shipping", "promotions"}
ShipsIn3Days == Str(<<Word("ships in 3 days")>>)
AllRaise(n) == [i \in 1..n |-> Raises]
PhrasesOf(pairs) == {pairs[i][1] : i \in 1..Len(pairs)}
Range(seq) == {seq[i] : i \in 1..Len(seq)}

SoundLenovoPage(blocks) ==
  [BlankLenovoPage EXCEPT !.blocks = blocks,
                          !.price_sel[3] = Visible(Dollars899),
                          !.avail_sel[2] = Visible(Str(<<Word("in stock")>>)),
                          !.ship_sel[1] = Visible(ShipsIn3Days),
                          !.words = {"add to cart", "weekly deals"}]
FaultyLenovoPage(blocks, faults) ==
  LET p == SoundLenovoPage(blocks) IN
  [p EXCEPT !.price_sel = IF "price" \in faults THEN AllRaise(Len(p.price_sel)) ELSE @,
            !.price_pat = IF "price" \in faults THEN AllRaise(Len(p.price_pat)) ELSE @,
            !.avail_sel = IF "availability" \in faults THEN AllRaise(Len(p.avail_sel)) ELSE @,
            !.ship_sel = IF "shipping" \in faults THEN AllRaise(Len(p.ship_sel)) ELSE @,
            !.ship_pat = IF "shipping" \in faults THEN AllRaise(Len(p.ship_pat)) ELSE @,
            !.text_raise = (IF "availability" \in faults THEN PhrasesOf(AvailPhrases) ELSE {})
                             \cup (IF "promotions" \in faults THEN Range(LenovoPromos) ELSE {})]

SoundHpPage(blocks) ==
  [BlankHpPage EXCEPT !.blocks = blocks,
                      !.price_sel[2] = Visible(Dollars899),
                      !.ship_pat[1] = Visible(ShipsIn3Days),
                      !.words = {"add to cart", "weekly deals"}]
FaultyHpPage(blocks, faults) ==
  LET p == SoundHpPage(blocks) IN
  [p EXCEPT !.price_sel = IF "price" \in faults THEN AllRaise(Len(p.price_sel)) ELSE @,
            !.price_pat = IF "price" \in faults THEN AllRaise(Len(p.price_pat)) ELSE @,
            !.ship_pat = IF "shipping" \in faults THEN AllRaise(Len(p.ship_pat)) ELSE @,
            !.text_raise = (IF "availability" \in faults
                            THEN {"add to cart", "out of stock", "customize & buy"} ELSE {})
                             \cup (IF "promotions" \in faults THEN Range(HpPromos) ELSE {})]

\* the structured data of such a page: none, a Product node without
\* availability, or a Product node whose offers is a list of offers
FaultyBlocks ==
  { <<>>,
    << JsonBlock(ProductNode([offers |-> OffersDict(Num(79999), None, S("USD"))], <<>>)) >>,
    << JsonBlock(ProductNode([offers |-> List(<<OffersDict(Num(79999), SchemaInStock, S("USD"))>>)],
                             <<>>)) >> }

HpPages ==
  { [BlankHpPage EXCEPT !.blocks = JunkBlocks(junk) \o LdBlocks(price, avail, cur),
                        !.price_sel[2] = sel,
                        !.price_pat[1] = pat,
                        !.words = words] :
      price \in {None, Num(79999)}, avail \in {None, SchemaInStock}, cur \in {None, S("USD")},
      sel \in SelectorAnswers,
      pat \in PatternAnswers, words \in WordSets, junk \in 0..MaxJunkBlocks }

InitPage ==
  /\ pc = "idle"
  /\ attempt_number = 0
  /\ slept = 0
  /\ play = "stopped"
  /\ browser = "none"
  /\ step = 1
  /\ navigated = <<>>
  /\ warned = {}
  /\ offers = [k \in Keys |-> <<>>]
  /\ reviews_map = [k \in Keys |-> <<>>]
  /\ qna_map = [k \in Keys |-> <<>>]
  /\ OUT_OFFERS = NoFile
  /\ OUT_REVIEWS = NoFile
  /\ OUT_QNA = NoFile
  /\ \/ \E p \in LenovoPages \cup ShapedLenovoPages : page_in = [vendor |-> "Lenovo", page |-> p]
     \/ \E p \in HpPages : page_in = [vendor |-> "HP", page |-> p]
     \/ \E b \in FaultyBlocks, f \in SUBSET SubSteps :
          \/ page_in = [vendor |-> "Lenovo", page |-> FaultyLenovoPage(b, f), faults |-> f,
                        sound |-> SoundLenovoPage(b)]
          \/ page_in = [vendor |-> "HP", page |-> FaultyHpPage(b, f), faults |-> f,
                        sound |-> SoundHpPage(b)]
  /\ page_out = [state |-> "pending"]
  /\ all_results = <<>>
  /\ live_data = NoFile
  /\ live_offers = NoFile
  /\ live_reviews = NoFile
  /\ live_qna = NoFile
  /\ IdleParser
  /\ IdleIngest

ScrapeLenovoPage ==
  /\ page_out.state = "pending"
  /\ page_in.vendor = "Lenovo"
  /\ page_out' = [state |-> "done", r |-> scrape_lenovo_pdp(page_in.page, "LENOVO_E14_INTEL_URL")]
  /\ UNCHANGED <<page_in, runvars, legacyvars, parservars, ingestvars>>

ScrapeHpPage ==
  /\ page_out.state = "pending"
  /\ page_in.vendor = "HP"
  /\ page_out' = [state |-> "done", r |-> scrape_hp_pdp(page_in.page, "HP_PROBOOK_440_PDP")]
  /\ UNCHANGED <<page_in, runvars, legacyvars, parservars, ingestvars>>

NextPage == ScrapeLenovoPage \/ ScrapeHpPage

SpecPage == InitPage /\ [][NextPage]_vars

\* what the structured data of the page resolves, as scrape_lenovo_pdp reads it
LdOffers(page) ==
  LET ex == extract_product_from_jsonld(read_jsonld_from_dom(page)) IN
  IF ex.raised \/ ~Truthy(ex.prod) THEN Dict(<<>>)
  ELSE PyOr(Get(ex.prod, "offers"), Dict(<<>>))
LdPrice(page) == IF IsDict(LdOffers(page)) THEN Get(LdOffers(page), "price") ELSE None
LdAvailability(page) == IF IsDict(LdOffers(page)) THEN Get(LdOffers(page), "availability") ELSE None
LdResolvesBoth(page) ==
  /\ page.goto = "ok"
  /\ Truthy(money_to_float(LdPrice(page)))
  /\ Truthy(LdAvailability(page))

PageDone == page_out.state = "done"
PageReturned == PageDone /\ ~page_out.r.raised

(***************************************************************************)
(* One review card on its own (SpecCards): the per-card loops of           *)
(* scrape_hp_reviews_page (lines 465-593) and scrape_lenovo_reviews_page   *)
(* (lines 787-898), which are the same code over different selector lists. *)
(* A label is the sequence of its pieces: a digit, ".", " ", one of the    *)
(* phrases the patterns look for, or any other word.  A raw text has n     *)
(* characters between pad characters of surrounding whitespace.            *)
(***************************************************************************)
Label(pieces) == [t |-> "label", v |-> pieces]
Raw(pad, n) == [t |-> "raw", pad |-> pad, n |-> n]
RatingEl(aria, data, text) == [e |-> "visible", aria |-> aria, data |-> data, text |-> text]

Digits == {"0", "1", "2", "3", "4", "5", "6", "7", "8", "9"}
DigitVal(c) ==
  CASE c = "0" -> 0 [] c = "1" -> 1 [] c = "2" -> 2 [] c = "3" -> 3 [] c = "4" -> 4
    [] c = "5" -> 5 [] c = "6" -> 6 [] c = "7" -> 7 [] c = "8" -> 8 [] OTHER -> 9

\* (?:out of 5|stars?) for an aria-label, (?:out of 5|stars?|/5) for a text
AriaPhrases == {"out of 5", "star", "stars"}
TextPhrases == AriaPhrases \cup {"/5"}

\* \s*(?:...) at position j of the label
RECURSIVE PhraseAt(_, _, _)
PhraseAt(s, j, phrases) ==
  IF j > Len(s) THEN FALSE
  ELSE IF s[j] = " " THEN PhraseAt(s, j + 1, phrases)
  ELSE s[j] \in phrases

\* ([0-5]\.?[0-9]?) at position i, in the order the regex engine tries the
\* optional parts; the value is float(group) in tenths, None when no match
rating_at(s, i, phrases) ==
  IF i > Len(s) \/ s[i] \notin {"0", "1", "2", "3", "4", "5"} THEN None
  ELSE LET d == DigitVal(s[i])
           dot == i + 1 <= Len(s) /\ s[i + 1] = "."
           dotdigit == dot /\ i + 2 <= Len(s) /\ s[i + 2] \in Digits
           digit == i + 1 <= Len(s) /\ s[i + 1] \in Digits
       IN IF dotdigit /\ PhraseAt(s, i + 3, phrases) THEN Num(10 * d + DigitVal(s[i + 2]))
          ELSE IF dot /\ PhraseAt(s, i + 2, phrases) THEN Num(10 * d)
          ELSE IF digit /\ PhraseAt(s, i + 2, phrases) THEN Num(10 * (10 * d + DigitVal(s[i + 1])))
          ELSE IF PhraseAt(s, i + 1, phrases) THEN Num(10 * d)
          ELSE None

\* re.search: the leftmost position with a match
RECURSIVE rating_search(_, _, _)
rating_search(s, i, phrases) ==
  IF i > Len(s) THEN None
  ELSE IF ~IsNone(rating_at(s, i, phrases)) THEN rating_at(s, i, phrases)
  ELSE rating_search(s, i + 1, phrases)

\* data_rating.replace(".", "").isdigit()
IsDigitsAndDots(s) ==
  /\ \A i \in 1..Len(s) : s[i] \in Digits \cup {"."}
  /\ \E i \in 1..Len(s) : s[i] \in Digits

DotCount(s) == Cardinality({i \in 1..Len(s) : s[i] = "."})

\* the integer the digits of s[1..n] spell
RECURSIVE DigitsValue(_, _)
DigitsValue(s, n) ==
  IF n = 0 THEN 0
  ELSE IF s[n] = "." THEN DigitsValue(s, n - 1)
  ELSE 10 * DigitsValue(s, n - 1) + DigitVal(s[n])

\* float(data_rating) in tenths, for a value with at most one decimal;
\* [raised |-> TRUE] is the ValueError of a second "."
float_of(s) ==
  IF DotCount(s) > 1 THEN [raised |-> TRUE]
  ELSE IF DotCount(s) = 1 /\ Len(s) > 1 /\ s[Len(s) - 1] = "."
       THEN [raised |-> FALSE, v |-> Num(DigitsValue(s, Len(s)))]
  ELSE [raised |-> FALSE, v |-> Num(10 * DigitsValue(s, Len(s)))]

\* one pass of the body of "for sel in rating_selectors": the rating found,
\* or None when the loop goes on to the next selector
rating_of_element(el) ==
  IF el.e # "visible" THEN None
  ELSE LET mm == IF IsNone(el.aria) \/ Len(el.aria.v) = 0 THEN None
                 ELSE rating_search(el.aria.v, 1, AriaPhrases)
           usable == ~IsNone(el.data) /\ IsDigitsAndDots(el.data.v)
           mm2 == IF IsNone(el.text) \/ Len(el.text.v) = 0 THEN None
                  ELSE rating_search(el.text.v, 1, TextPhrases)
       IN IF ~IsNone(mm) THEN mm
          ELSE IF usable THEN (IF float_of(el.data.v).raised THEN None ELSE float_of(el.data.v).v)
          ELSE mm2

RECURSIVE rating_loop(_, _)
rating_loop(els, i) ==
  IF i > Len(els) THEN None
  ELSE IF ~IsNone(rating_of_element(els[i])) THEN rating_of_element(els[i])
  ELSE rating_loop(els, i + 1)

\* "for sel in body_selectors" / "for sel in title_selectors": the text of
\* the first visible element longer than min after stripping, else the text
\* of the last visible element
RECURSIVE text_loop(_, _, _, _)
text_loop(els, i, min, sofar) ==
  IF i > Len(els) THEN sofar
  ELSE IF els[i].e # "visible" THEN text_loop(els, i + 1, min, sofar)
  ELSE IF ~IsNone(els[i].text) /\ els[i].text.n > min THEN els[i].text
  ELSE text_loop(els, i + 1, min, els[i].text)

\* x.strip() if x else None
strip_or_none(x) ==
  IF IsNone(x) \/ x.pad + x.n = 0 THEN None ELSE Text(x.n)

\* what the loops of one card leave in rating, title and body
read_card(c) ==
  [rating |-> rating_loop(c.rating_els, 1),
   title |-> strip_or_none(text_loop(c.title_els, 1, TITLE_MIN, None)),
   body |-> strip_or_none(text_loop(c.body_els, 1, BODY_MIN, None))]

\* the rating elements a card may show
RatingElements ==
  { Hidden, Raises,
    RatingEl(Label(<<"4", ".", "5", " ", "out of 5">>), None, None),
    RatingEl(Label(<<"Rated", " ", "4", " ", "stars">>), None, None),
    RatingEl(Label(<<"5", ".", "9", " ", "out of 5">>), None, None),
    RatingEl(None, Label(<<"4", ".", "5">>), None),
    RatingEl(None, Label(<<"1", "0">>), None),
    RatingEl(None, Label(<<"4", ".", "5", ".", "1">>), Label(<<"great">>)),
    RatingEl(Label(<<"rating">>), Label(<<"n/a">>), Label(<<"3", "/5">>)),
    RatingEl(None, None, Label(<<"4", "5", " ", "stars">>)) }

TitleElements ==
  { Hidden, Raises, Visible(None), Visible(Raw(2, TITLE_MIN - 1)),
    Visible(Raw(0, TITLE_MIN)), Visible(Raw(0, TITLE_MIN + 1)) }
BodyElements ==
  { Hidden, Visible(Raw(0, 0)), Visible(Raw(2, BODY_MIN - 1)),
    Visible(Raw(2, BODY_MIN)), Visible(Raw(0, BODY_MIN + 1)) }

\* a card answers its first rating selector, its first two title selectors
\* and its first body selector; the selectors after them find nothing
RawCards ==
  { [rating_els |-> <<r>>, title_els |-> <<t1, t2>>, body_els |-> <<b>>] :
      r \in RatingElements, t1 \in TitleElements, t2 \in TitleElements, b \in BodyElements }

CardPage(c) == [BlankReviewPage EXCEPT !.cards = <<read_card(c)>>]

InitCards ==
  /\ IdleMain
  /\ \E v \in {"Lenovo", "HP"}, c \in RawCards : page_in = [vendor |-> v, card |-> c]
  /\ page_out = [state |-> "pending"]
  /\ all_results = <<>>
  /\ live_data = NoFile
  /\ live_offers = NoFile
  /\ live_reviews = NoFile
  /\ live_qna = NoFile
  /\ IdleParser
  /\ IdleIngest

ScrapeHpCard ==
  /\ page_out.state = "pending"
  /\ page_in.vendor = "HP"
  /\ page_out' = [state |-> "done",
                  r |-> scrape_hp_reviews_page(CardPage(page_in.card), "HP_PROBOOK_440_REVIEWS")]
  /\ UNCHANGED <<page_in, runvars, legacyvars, parservars, ingestvars>>

ScrapeLenovoCard ==
  /\ page_out.state = "pending"
  /\ page_in.vendor = "Lenovo"
  /\ page_out' = [state |-> "done",
                  r |-> scrape_lenovo_reviews_page(CardPage(page_in.card), "LENOVO_E14_INTEL_URL")]
  /\ UNCHANGED <<page_in, runvars, legacyvars, parservars, ingestvars>>

NextCards == ScrapeHpCard \/ ScrapeLenovoCard

SpecCards == InitCards /\ [][NextCards]_vars

(***************************************************************************)
(* Properties of a run (Spec)                                              *)
(***************************************************************************)
TypeOK ==
  /\ pc \in {"launch", "wait", "setup", "scrape", "persist", "done", "raised"}
  /\ attempt_number \in 0..STOP_AFTER_ATTEMPT
  /\ step \in 1..(Len(Work) + 1)
  /\ \A k \in Keys : Len(offers[k]) <= 1

Vendors == {"Lenovo", "HP"}
VendorTotal(m, v) == SumLen(m, {k \in Keys : Vendor(k) = v})
AllPagesVisited == navigated = [i \in 1..Len(Work) |-> Work[i].url]

\* C1: a run that collected zero review records leaves the reviews document
\* as it was, and a run that collected zero QnA records leaves the QnA
\* document as it was: either document changes only in a step taken with at
\* least one collected record of its kind.
C1_EmptyKindPreserved ==
  [][ /\ (OUT_REVIEWS' # OUT_REVIEWS => Total(reviews_map) > 0)
      /\ (OUT_QNA' # OUT_QNA => Total(qna_map) > 0) ]_vars

\* a finished run with no review but some QnA: the prior reviews are still
\* there and the QnA document is the run's
C1_Witness ==
  /\ pc = "done"
  /\ Total(reviews_map) = 0
  /\ Total(qna_map) > 0
  /\ OUT_REVIEWS = File(PriorReviews)
  /\ OUT_QNA = File(qna_map)

\* C2 as stated: for every vendor, a run with no review for any product of
\* that vendor leaves the reviews document unchanged.
C2_VendorPreserved ==
  [][ \A v \in Vendors : VendorTotal(reviews_map, v) = 0 => OUT_REVIEWS' = OUT_REVIEWS ]_vars

\* C2 amended: for every vendor with no review in the run, the persistence
\* step leaves the reviews document unchanged when no other vendor's product
\* yielded a review either; when another vendor's did, the document becomes
\* the run's map, in which that vendor's entries are empty lists.
C2_VendorPreservedIfRunEmpty ==
  [][ pc = "persist" =>
        \A v \in Vendors : VendorTotal(reviews_map, v) = 0 =>
           IF \A w \in Vendors : VendorTotal(reviews_map, w) = 0
           THEN OUT_REVIEWS' = OUT_REVIEWS
           ELSE /\ OUT_REVIEWS' = File(reviews_map)
                /\ \A k \in Keys : Vendor(k) = v => OUT_REVIEWS'.data[k] = <<>> ]_vars

\* every page was visited, no vendor yielded a review, the prior reviews
\* document survived the persistence step
C2_Witness ==
  /\ pc = "done"
  /\ AllPagesVisited
  /\ warned = {}
  /\ \A v \in Vendors : VendorTotal(reviews_map, v) = 0
  /\ OUT_REVIEWS = File(PriorReviews)
  /\ OUT_OFFERS = File(offers)

\* C3 as stated: however a run ends, the offers document is the offers map
\* the run collected.
C3_OffersAlwaysWritten ==
  pc \in {"done", "raised"} => OUT_OFFERS = File(offers)

\* C3 amended: the persistence step, when the run reaches it, makes the offers
\* document the collected offers map whatever the map holds; no other step
\* touches the document, so a run that raises before persisting leaves it.
C3_OffersWrittenWhenPersisting ==
  [][ IF pc = "persist" THEN OUT_OFFERS' = File(offers) /\ pc' = "done"
      ELSE OUT_OFFERS' = OUT_OFFERS ]_vars

\* every product page raised: the all-empty map replaced the prior document
C3_Witness ==
  /\ pc = "done"
  /\ \A k \in Keys : offers[k] = <<>>
  /\ OUT_OFFERS = File(offers)
  /\ OUT_REVIEWS = File(PriorReviews)

\* C6 as stated: after the run the offers map holds exactly one record for
\* every product key, whatever raised.
C6_ExactlyOneOffer ==
  pc \in {"persist", "done"} => \A k \in Keys : Len(offers[k]) = 1

\* C6 amended: after the run the offers map holds, for every product key,
\* exactly one record when the product page's extraction returned and none
\* when it raised (and was warned about); never more than one.
C6_OneOfferUnlessRaised ==
  /\ \A k \in Keys : Len(offers[k]) <= 1
  /\ pc \in {"persist", "done"} =>
       \A k \in Keys : Len(offers[k]) = (IF TARGETS[k].pdp \in warned THEN 0 ELSE 1)

\* a persisted run in which one product page raised and the others returned
C6_Witness ==
  /\ pc = "done"
  /\ TARGETS["hp_probook_440"].pdp \in warned
  /\ offers["hp_probook_440"] = <<>>
  /\ Len(offers["hp_probook_450"]) = 1
  /\ Len(OUT_OFFERS.data["lenovo_e14_amd"]) = 1

\* get_browser gave up: the third launch failed
AcquisitionFailed == attempt_number = STOP_AFTER_ATTEMPT /\ browser = "none" /\ pc # "launch"

C8_RetryPolicy ==
  /\ [] /\ attempt_number <= STOP_AFTER_ATTEMPT
        /\ slept = WAIT_FIXED * (IF pc = "launch" THEN attempt_number
                                 ELSE IF attempt_number = 0 THEN 0 ELSE attempt_number - 1)
        /\ (browser # "none" => attempt_number \in 1..STOP_AFTER_ATTEMPT /\ pc \notin {"launch", "wait"})
        /\ (pc = "raised" /\ browser = "none" => attempt_number = STOP_AFTER_ATTEMPT)
  /\ [][ /\ (browser # "none" => attempt_number' = attempt_number /\ slept' = slept)
         /\ (browser = "none" /\ browser' = "open" => pc' = "setup") ]_vars

\* the third launch succeeded after two waits and the run went on to scrape
C8_Witness ==
  /\ browser = "open"
  /\ attempt_number = STOP_AFTER_ATTEMPT
  /\ slept = 2 * WAIT_FIXED
  /\ pc = "scrape"
  /\ step > 1

\* scraper.main visited its first n targets, in order, and recorded each
LegacyVisited(n) ==
  /\ navigated = [i \in 1..n |-> SCRAPING_URLS[i].url]
  /\ DOMAIN all_results = {SCRAPING_URLS[i].key : i \in 1..n}

LegacyFailureDidNotBlock ==
  /\ pc = "legacy_done"
  /\ warned = {"LENOVO_E14_INTEL_URL"}
  /\ all_results["lenovo_e14_intel"] = EmptyResult
  /\ \A k \in Keys \ {"lenovo_e14_intel"} : Len(all_results[k].offers) = 1
  /\ live_offers = File([k \in Keys |-> all_results[k].offers])

\* C10: the backfill from a review page never changes an aggregate rating or
\* an aggregate review count that is not null.
C10_BackfillKeepsNonNull ==
  [][ \A k \in Keys :
        (Len(offers[k]) = 1 /\ Len(offers'[k]) = 1) =>
          /\ (~IsNone(offers[k][1].aggregate_rating) =>
                offers'[k][1].aggregate_rating = offers[k][1].aggregate_rating)
          /\ (~IsNone(offers[k][1].aggregate_review_count) =>
                offers'[k][1].aggregate_review_count = offers[k][1].aggregate_review_count) ]_vars

(***************************************************************************)
(* Properties of one product page (SpecPage)                               *)
(***************************************************************************)
\* C4: the price of every OfferRecord is null or within [10, 50000].
C4_PriceInRange ==
  PageReturned => (IsNone(page_out.r.data.price) \/ InRange(page_out.r.data.price.v))

\* the page queries of the selector cascade and of the page-text fallback
FallbackQueries == {"price_selectors", "price_text", "avail_selectors", "avail_text"}

\* C5: when the structured data of a page resolves both price and
\* availability, neither the selector cascade nor the page-text fallback is
\* run for price or availability.
C5_StructuredDataSkipsFallbacks ==
  (PageDone /\ LdResolvesBoth(page_in.page)) => page_out.r.queries \cap FallbackQueries = {}

\* the run of either scraper is over: it returned or an exception left it
RunEnded ==
  pc \in {"done", "raised", "legacy_done", "raised_in_create_browser_context",
          "raised_in_new_page", "raised_in_page_close", "raised_in_browser_close"}

HasProvenance(o) ==
  /\ "source_url" \in DOMAIN o
  /\ \E f \in {"fetched_at", "timestamp"} : f \in DOMAIN o /\ o[f] = now_iso
PriceNullOrResolved(o) == IsNone(o.price) \/ (IsNum(o.price) /\ o.price.v > 0)

UnifiedOffersOk ==
  \A k \in Keys : \A i \in 1..Len(offers[k]) :
    HasProvenance(offers[k][i]) /\ PriceNullOrResolved(offers[k][i])
LegacyOffersOk ==
  \A k \in DOMAIN all_results : \A i \in 1..Len(all_results[k].offers) :
    HasProvenance(all_results[k].offers[i]) /\ PriceNullOrResolved(all_results[k].offers[i])

\* C17: every OfferRecord of a run, of unified_scraper or of scraper.py,
\* carries its fetch time and its source URL, and its price is null when no
\* price was resolved, never a made-up number.
C17_OfferProvenanceAndNullPrice == UnifiedOffersOk /\ LegacyOffersOk

\* the availability codes of an OfferRecord
AvailabilityCodes ==
  {"InStock", "OutOfStock", "PreOrder", "Discontinued", "Customizable", "Unknown"}

\* C19: the availability of every returned OfferRecord is null or one of the
\* codes InStock, OutOfStock, PreOrder, Discontinued, Customizable, Unknown.
C19_AvailabilityIsACode ==
  PageReturned =>
    \/ IsNone(page_out.r.data.availability)
    \/ \E c \in AvailabilityCodes : page_out.r.data.availability = S(c)

\* the currency codes of the pages
ThreeLetterCodes == {"USD", "EUR", "GBP"}

\* C20: the currency of every returned OfferRecord is null or a 3-letter
\* code.
C20_CurrencyIsACode ==
  PageReturned =>
    \/ IsNone(page_out.r.data.currency)
    \/ \E c \in ThreeLetterCodes : page_out.r.data.currency = S(c)

\* the page with its malformed structured-data blocks taken out
IsWellFormed(b) == b.raw # "malformed"
WithoutMalformed(page) == [page EXCEPT !.blocks = SelectSeq(page.blocks, IsWellFormed)]
HasMalformedBlock(page) == \E i \in 1..Len(page.blocks) : page.blocks[i].raw = "malformed"

\* what the vendor's extraction makes of a page
ScrapeOf(vendor, page) ==
  IF vendor = "Lenovo" THEN scrape_lenovo_pdp(page, "LENOVO_E14_INTEL_URL")
  ELSE scrape_hp_pdp(page, "HP_PROBOOK_440_PDP")

\* C13: a malformed structured-data block does not make the extraction
\* raise: the outcome for a page with such a block is the outcome for the
\* same page without it, so an OfferRecord is returned whenever the rest of
\* the page yields one; when no other block resolves a price, the price
\* selectors are queried.
C13_MalformedBlockIsAbsent ==
  (PageDone /\ HasMalformedBlock(page_in.page)) =>
    /\ page_out.r = ScrapeOf(page_in.vendor, WithoutMalformed(page_in.page))
    /\ (~ScrapeOf(page_in.vendor, WithoutMalformed(page_in.page)).raised => PageReturned)
    /\ (PageReturned /\ ~Truthy(money_to_float(LdPrice(WithoutMalformed(page_in.page)))) =>
          "price_selectors" \in page_out.r.queries)

\* a page whose only block is malformed: the record's price is the one the
\* selector shows
C13_Witness ==
  /\ PageReturned
  /\ page_in.vendor = "Lenovo"
  /\ page_in.page.blocks = <<MalformedBlock>>
  /\ page_in.page.price_sel[3] = Visible(Dollars899)
  /\ page_out.r.data.price = Num(89900)
  /\ "price_selectors" \in page_out.r.queries

(***************************************************************************)
(* Properties of an orchestrator run (SpecIngest)                          *)
(***************************************************************************)
\* the specification step is over
AfterSpecStep ==
  ingest_pc \notin {"off", "clear_existing_data", "parse_all_pdfs", "ingest_laptop_specs"}

\* run_full_ingestion returned or an exception left it
IngestEnded ==
  ingest_pc \in {"ingestion_completed", "raised_in_existing_data", "raised_in_create_sample_data"}

CatalogRows == Len(db.Laptop) + Len(db.Offer) + Len(db.Review) + Len(db.QnA)

\* some document on disk holds something
DocumentsOnDisk ==
  \/ NonEmpty(load_json_file(OUT_OFFERS))
  \/ NonEmpty(load_json_file(OUT_REVIEWS))
  \/ NonEmpty(load_json_file(OUT_QNA))

\* the records a document holds for the products of the catalog
DocRows(file) ==
  SumLen(load_json_file(file), DOMAIN load_json_file(file) \cap DOMAIN laptop_mapping)

C15_CatalogHasProduct ==
  AfterSpecStep =>
    /\ Len(db.Laptop) >= 1
    /\ ~NonEmpty(specs_data) =>
         /\ Len(db.Laptop) = Len(KeyOrder)
         /\ \A i \in 1..Len(KeyOrder) :
              db.Laptop[i].specs_json = placeholder_specs[KeyOrder[i]].specifications

\* no datasheet gave a result and the placeholders are in the store
C15_Witness ==
  /\ ingest_pc = "main"
  /\ specs_data = <<>>
  /\ Len(db.Laptop) = 4
  /\ db.Laptop[4].specs_json.storage = <<"512GB SSD">>

\* ingest_offers has been called with the offers document
OffersLoaded ==
  /\ ingest_pc \in {"except", "print_summary", "ingestion_completed", "raised_in_existing_data"}
  /\ NonEmpty(load_json_file(OUT_OFFERS))

\* C18: once the offers document has been loaded, every record of it with a
\* null price, of a product of the catalog, has a stored offer whose price is
\* unknown (not zero), and whose availability is unknown when the record
\* gave none.
C18_NullPriceStoredAsUnknown ==
  OffersLoaded =>
    \A k \in DOMAIN load_json_file(OUT_OFFERS) \cap DOMAIN laptop_mapping :
      \A i \in 1..Len(OUT_OFFERS.data[k]) :
        IsNone(RecGet(OUT_OFFERS.data[k][i], "price")) =>
          \E j \in 1..Len(db.Offer) :
            /\ db.Offer[j].laptop_id = laptop_mapping[k]
            /\ IsNone(db.Offer[j].price)
            /\ ("is_available" \notin DOMAIN OUT_OFFERS.data[k][i] =>
                  db.Offer[j].is_available \notin BOOLEAN)

(***************************************************************************)
(* Properties of the candidate deduplication (SpecDedup)                   *)
(***************************************************************************)
\* the two candidates share at least 80% of their words: the words in common
\* are at least 80% of the words of the longer one
ShareEightyPercent(a, b) ==
  10 * Cardinality(Words(a) \cap Words(b))
    >= 8 * Max(Cardinality(Words(a)), Cardinality(Words(b)))

Occurs(c, list) == \E i \in 1..Len(list) : list[i] = c

\* C11: of any two different candidates of the input that share at least 80%
\* of their words, exactly 80% included, at most one is in the deduplicated
\* output: the later one is never kept beside the earlier one.
C11_EightyPercentIsDuplicate ==
  dedup_out.state = "once" =>
    \A i, j \in 1..Len(dedup_in) :
      (i < j /\ dedup_in[i] # dedup_in[j]
         /\ ShareEightyPercent(dedup_in[i], dedup_in[j])) =>
        ~(Occurs(dedup_in[i], dedup_out.r) /\ Occurs(dedup_in[j], dedup_out.r))

\* C12: deduplicating the output of a deduplication returns that output,
\* element for element and in the same order.
C12_DedupIdempotent ==
  dedup_out.state = "twice" => dedup_out.r = dedup_out.first

\* a list the first pass shortened to two candidates, passed a second time
C12_Witness ==
  /\ dedup_out.state = "twice"
  /\ Len(dedup_in) = MaxCandidates
  /\ Len(dedup_out.first) = 2
  /\ dedup_in[1] = CoreI5Processor
  /\ dedup_in[2] = CoreI5Cpu
  /\ dedup_in[3] = CoreI5Both

(***************************************************************************)
(* Properties of one review card (SpecCards)                               *)
(***************************************************************************)
CardDone == page_out.state = "done" /\ ~page_out.r.raised
CardRead == read_card(page_in.card)
CardKept == Len(page_out.r.rvs) = 1
LengthOf(x) == IF IsNone(x) THEN 0 ELSE x.n

\* C21 as stated: a review card is kept exactly when its rating is present,
\* or its trimmed title has at least 3 characters, or its trimmed body has
\* at least 10 characters; otherwise it is discarded.
C21_KeptFromThreeOrTenCharacters ==
  CardDone =>
    (CardKept <=> \/ ~IsNone(CardRead.rating)
                  \/ LengthOf(CardRead.title) >= TITLE_MIN
                  \/ LengthOf(CardRead.body) >= BODY_MIN)

\* C21 amended: a review card is kept exactly when its rating is present, or
\* its trimmed title is longer than 3 characters (4 or more), or its trimmed
\* body is longer than 10 characters (11 or more); a kept card yields one
\* record carrying that rating, title and body, and any other card yields
\* none.
C21_KeptAboveThreeOrTenCharacters ==
  CardDone =>
    /\ CardKept <=> \/ ~IsNone(CardRead.rating)
                    \/ LengthOf(CardRead.title) > TITLE_MIN
                    \/ LengthOf(CardRead.body) > BODY_MIN
    /\ Len(page_out.r.rvs) <= 1
    /\ CardKept => /\ page_out.r.rvs[1].rating = CardRead.rating
                   /\ page_out.r.rvs[1].title = CardRead.title
                   /\ page_out.r.rvs[1].body = CardRead.body

\* a card without a rating whose title has exactly 3 characters and whose
\* body has exactly 10 was read and discarded
C21_Witness ==
  /\ CardDone
  /\ IsNone(CardRead.rating)
  /\ LengthOf(CardRead.title) = TITLE_MIN
  /\ LengthOf(CardRead.body) = BODY_MIN
  /\ ~CardKept

\* C28: the rating of every review record is null or within [0, 5] (0 to 50
\* tenths), whichever of the three heuristics (aria-label, data-rating
\* attribute, "X out of 5" text) produced it.
C28_RatingWithinZeroToFive ==
  CardDone =>
    \A i \in 1..Len(page_out.r.rvs) :
      \/ IsNone(page_out.r.rvs[i].rating)
      \/ (page_out.r.rvs[i].rating.v >= 0 /\ page_out.r.rvs[i].rating.v <= 50)

(***************************************************************************)
(* Properties of one product page (SpecPage), continued                    *)
(***************************************************************************)
LdCurrency(page) == IF IsDict(LdOffers(page)) THEN Get(LdOffers(page), "priceCurrency") ELSE None

\* the amount in cents an offers.price within the plausible range states,
\* as a JSON number or as a JSON string of the bare amount; 0 otherwise
LdPriceCents(page) ==
  LET p == LdPrice(page) IN
  IF IsNum(p) /\ InRange(p.v) THEN p.v
  ELSE IF p.t = "str" /\ Len(p.v) = 1 /\ p.v[1].k = "num" /\ p.v[1].pre = ""
          /\ p.v[1].post = "" /\ InRange(p.v[1].v)
       THEN p.v[1].v
  ELSE 0

\* the Product node gives a price in range, a currency and an availability URL
LdGivesAll(page) ==
  /\ page.goto = "ok"
  /\ LdPriceCents(page) # 0
  /\ Truthy(LdCurrency(page))
  /\ LdAvailability(page).t = "path"
  /\ Len(LdAvailability(page).v) > 1

\* C22: when the Product node of a page gives an offers price in the
\* plausible range, a priceCurrency and an availability URL, the record's
\* price, currency and availability are exactly those values (availability
\* being the last path segment), whatever selectors and visible text show.
C22_StructuredValuesAreTheRecord ==
  PageDone /\ LdGivesAll(page_in.page) =>
    /\ ~page_out.r.raised
    /\ page_out.r.data.price = Num(LdPriceCents(page_in.page))
    /\ page_out.r.data.currency = LdCurrency(page_in.page)
    /\ page_out.r.data.availability
         = S(LdAvailability(page_in.page).v[Len(LdAvailability(page_in.page).v)])

\* the same statement for the pages of the Lenovo extractor alone
LenovoStructuredValuesAreTheRecord ==
  page_in.vendor = "Lenovo" => C22_StructuredValuesAreTheRecord

\* a Lenovo page whose selector and visible text show another price than
\* its structured data was scraped
LenovoStructuredValuesWitness ==
  /\ PageDone
  /\ page_in.vendor = "Lenovo"
  /\ LdGivesAll(page_in.page)
  /\ page_in.page.price_sel[3] = Visible(Dollars899)
  /\ page_in.page.words = {"add to cart"}

\* no structured data, no matching selector, "$899.00" and "Add to cart" in
\* the visible text
TextOnlyPage(page) ==
  /\ page.goto = "ok"
  /\ page.blocks = <<>>
  /\ \A i \in 1..Len(page.price_sel) : page.price_sel[i] = Hidden
  /\ page.price_pat[1] = Visible(Dollars899)
  /\ page.words = {"add to cart"}

\* C23: for any product page of any configured vendor with no structured
\* data and no matching selector, whose visible text contains "$899.00" and
\* "Add to cart", the record has price 899.00, currency "USD" and
\* availability InStock.
C23_TextFallbackResolves ==
  PageDone /\ TextOnlyPage(page_in.page) =>
    /\ ~page_out.r.raised
    /\ page_out.r.data.price = Num(89900)
    /\ page_out.r.data.currency = S("USD")
    /\ page_out.r.data.availability = S("InStock")

\* the same statement for the pages of the Lenovo extractor alone
LenovoTextFallbackResolves ==
  page_in.vendor = "Lenovo" => C23_TextFallbackResolves

LenovoTextFallbackWitness ==
  PageDone /\ page_in.vendor = "Lenovo" /\ TextOnlyPage(page_in.page)

\* C30: Lenovo product-page extraction returns a record for every
\* well-formed structured-data content, whatever its shape: top-level
\* JSON-LD nodes that are not objects, and a Product node whose offers field
\* is a list, do not make scrape_lenovo_pdp raise on a page that loaded.
C30_AnyShapeReturns ==
  PageDone /\ page_in.vendor = "Lenovo" /\ page_in.page.goto = "ok" => ~page_out.r.raised

\* the part of a record one sub-step produces
FieldOf(data, substep) ==
  CASE substep = "price" -> <<data.price, data.currency>>
    [] substep = "availability" -> <<data.availability>>
    [] substep = "shipping" -> <<data.shipping_eta>>
    [] OTHER -> <<data.promo_badges>>

HasFaults == "faults" \in DOMAIN page_in
SoundResult == ScrapeOf(page_in.vendor, page_in.sound)

\* C25: within one product-page extraction the sub-steps price, availability,
\* shipping and promotions are fault-isolated: the page still yields a
\* record, and every sub-step in which nothing failed has extracted what it
\* extracts from the same page without the failures.
C25_SubStepsFaultIsolated ==
  PageDone /\ HasFaults =>
    /\ PageReturned
    /\ \A s \in SubSteps \ page_in.faults :
         FieldOf(page_out.r.data, s) = FieldOf(SoundResult.data, s)

\* the same statement for the failures of page lookups alone: pages whose
\* structured data the extractor reads without raising
LookupFaultsIsolated ==
  PageDone /\ HasFaults /\ ~SoundResult.raised =>
    /\ PageReturned
    /\ \A s \in SubSteps \ page_in.faults :
         FieldOf(page_out.r.data, s) = FieldOf(SoundResult.data, s)

\* every lookup of the availability sub-step raised and the record still
\* has the price, the shipping text and the promotion of the page
LookupFaultsWitness ==
  /\ PageReturned
  /\ HasFaults
  /\ page_in.faults = {"availability"}
  /\ page_out.r.data.price = Num(89900)
  /\ page_out.r.data.shipping_eta = ShipsIn3Days
  /\ page_out.r.data.promo_badges = <<"weekly deals">>

(***************************************************************************)
(* Properties of an orchestrator run (SpecIngest), continued               *)
(***************************************************************************)
\* C26: every orchestrator run reaches its completion step without
\* propagating an exception, whether live extraction and the loading of the
\* documents succeed, return empty per-target results, or raise: no
\* exception leaves run_full_ingestion.
C26_NoExceptionPropagates ==
  ingest_pc \notin {"raised_in_existing_data", "raised_in_create_sample_data"}

\* the documents have been read and loaded at least once
DocumentsLoaded ==
  /\ ingest_pc \in {"except", "print_summary", "ingestion_completed", "raised_in_existing_data"}
  /\ DocumentsOnDisk

\* C29: within one orchestrator run each record of the persisted offers and
\* reviews documents is loaded into the catalog store at most once: the
\* store never holds more offer rows, or more review rows, than the document
\* has records for the products of the catalog, also after the recovery
\* branch has reloaded the documents.
C29_LoadedAtMostOnce ==
  DocumentsLoaded =>
    /\ Len(db.Offer) <= DocRows(OUT_OFFERS)
    /\ Len(db.Review) <= DocRows(OUT_REVIEWS)

(***************************************************************************)
(* Properties of both scrapers (SpecScrapers), continued                   *)
(***************************************************************************)
\* C27: between the navigations of any two consecutive targets of a
\* live-extraction run the fixed inter-target delay is executed: the step
\* that follows a target's navigation and extraction is the delay step
\* (unless the run ends there), and the delay step waits SCRAPING_DELAY
\* seconds without navigating.
C27_DelayBetweenTargets ==
  [][ /\ (Len(navigated') > Len(navigated) => pc' \in {"sleep", "raised_in_page_close"})
      /\ (pc = "sleep" => (slept' = slept + SCRAPING_DELAY /\ navigated' = navigated)) ]_vars


(***************************************************************************)
(* Properties of the extracted specifications (SpecExtract)                *)
(***************************************************************************)
Extracted == dedup_out.state = "extracted"

\* the values of a category are 1 to 5 matches of the text that pass the
\* generic filter and the category's plausibility check
ValuesAreValid(category, values) ==
  /\ Len(values) \in 1..MAX_VALUES
  /\ \A i \in 1..Len(values) :
       /\ passes_filter(values[i])
       /\ is_valid_spec(category, values[i])
       /\ \E k \in 1..Len(dedup_in[category]) : dedup_in[category][k].words = values[i]

\* C24: every category of the mapping returned by extract_specifications has
\* between 1 and 5 values, each of which passed the generic filter and the
\* plausibility check of its category, no two of them duplicates under the
\* deduplication rule (two candidates sharing at least 80% of their words);
\* a category with no surviving candidate is absent from the mapping.
C24_ValuesValidUniqueCapped ==
  Extracted =>
    /\ \A category \in DOMAIN dedup_out.r :
         /\ ValuesAreValid(category, dedup_out.r[category])
         /\ \A i, j \in 1..Len(dedup_out.r[category]) :
              i < j => ~ShareEightyPercent(dedup_out.r[category][i], dedup_out.r[category][j])
    /\ \A category \in Categories :
         cleaned_matches(category, dedup_in[category], 1) = <<>> =>
           category \notin DOMAIN dedup_out.r

\* the same with the comparison of line 164: no two values share more than
\* 80% of their words, and a category with a surviving candidate is present
ExtractedValuesValidAndApart ==
  Extracted =>
    /\ \A category \in DOMAIN dedup_out.r :
         /\ ValuesAreValid(category, dedup_out.r[category])
         /\ \A i, j \in 1..Len(dedup_out.r[category]) :
              i < j => ~Similar(dedup_out.r[category][i], dedup_out.r[category][j])
    /\ \A category \in Categories :
         cleaned_matches(category, dedup_in[category], 1) = <<>> <=>
           category \notin DOMAIN dedup_out.r

\* more than five candidates survive and five are returned, next to matches
\* rejected by the filter and by the plausibility check
ExtractedValuesWitness ==
  /\ Extracted
  /\ "cpu" \in DOMAIN dedup_out.r
  /\ Len(dedup_out.r["cpu"]) = MAX_VALUES
  /\ Len(unique_matches("cpu", dedup_in["cpu"])) > MAX_VALUES
  /\ \E k \in 1..Len(dedup_in["cpu"]) : ~passes_filter(dedup_in["cpu"][k].words)
  /\ "ram" \notin DOMAIN dedup_out.r
  /\ dedup_in["ram"] # <<>>

====
